---- MODULE Spec2Model ----
(***************************************************************************)
(* Model of the fantasy-points pipeline of fipl-scoring-pipeline:          *)
(*   src/src/score_calculator.py    the scoring engine                     *)
(*   src/src/scorecard_scraper.py   the statistics assembler               *)
(*   src/src/sheet_updater.py       update_sheet_for_match: scrape, save,  *)
(*                                  score                                  *)
(*                                                                         *)
(* Number representation (Python floats become integers):                  *)
(*   strike_rate, economy, overs        hundredths   (2.1 overs = 210)     *)
(*   sr_differential, economy_differential   tenths  (35.0 % = 350)        *)
(*   run_outs                           sixths of a dismissal              *)
(*   points returned by calculate_*     sixths of a point                  *)
(*   points stored by stats.update      hundredths of a point (round(x,2)) *)
(* A statistics record read from JSON may hold a non-numeric value in a    *)
(* numeric field, or lack a key: the record's non_numeric and absent       *)
(* fields name those fields (create_default_player_stats leaves both       *)
(* empty).                                                                 *)
(***************************************************************************)
EXTENDS Integers, FiniteSets, Sequences, TLC

VARIABLES
    scorecard_data,        \* team -> [average_economy, average_strike_rate, player_stats]
    scoring_rules,         \* which rule table load_config_files loaded
    player_roles,          \* roster: player name -> role
    unknown_role_players,  \* names already reported by get_player_role
    returned,              \* team -> player -> what the calculate_* calls returned last
    run_count,             \* completed calls of calculate_scores_and_update_sheet
    raised,                \* the last call of calculate_scores_and_update_sheet raised
    pc,                    \* position of the pipeline
    all_players,           \* players.json: the list of [name, team, role] entries
    document,              \* the scorecard page: its innings and player-of-match link
    dismissal_records,     \* dismissals collected by the batting pass
    innings_num,           \* innings the scraper is in (0-based)
    row_num,               \* rows (or dismissal records) of the current pass already read
    lookup,                \* arguments of a direct call of find_matching_player
    lookup_results,        \* what the direct calls made so far returned
    blob,                  \* the state file in the Cloud Storage bucket
    current_time,          \* the clock, in minutes since 00:00 UTC of the first day
    response               \* what the last invocation of update_scores did and returned

vars == <<scorecard_data, scoring_rules, player_roles, unknown_role_players,
          returned, run_count, raised, pc, all_players, document, dismissal_records,
          innings_num, row_num, lookup, lookup_results, blob, current_time, response>>

\* Bound on the number of direct calls of find_matching_player with the same arguments.
MaxLookups == 2

\* Bound on the number of scoring runs over the same scorecard file.
MaxRuns == 2

-----------------------------------------------------------------------------
(* The rule table: scoring_rules[category][tier][role].                    *)

Roles == {"Batter", "Bowler", "Keeper"}

RuleKeys == <<
    "run_scoring.run", "run_scoring.four", "run_scoring.six", "run_scoring.duck",
    "run_scoring.milestone_30", "run_scoring.milestone_50", "run_scoring.milestone_75",
    "run_scoring.milestone_100", "run_scoring.milestone_150",
    "strike_rate.above_300", "strike_rate.above_250", "strike_rate.above_200",
    "strike_rate.above_170", "strike_rate.above_150",
    "strike_rate.below_70", "strike_rate.below_90",
    "strike_rate_differential.lower.70_plus",
    "strike_rate_differential.lower.60_to_69.99",
    "strike_rate_differential.lower.50_to_59.99",
    "strike_rate_differential.lower.40_to_49.99",
    "strike_rate_differential.lower.30_to_39.99",
    "strike_rate_differential.lower.20_to_29.99",
    "strike_rate_differential.higher.200_plus",
    "strike_rate_differential.higher.100_to_199.99",
    "strike_rate_differential.higher.75_to_99.99",
    "strike_rate_differential.higher.50_to_74.99",
    "strike_rate_differential.higher.30_to_49.99",
    "strike_rate_differential.higher.20_to_29.99",
    "wickets.per_wicket", "wickets.milestone_6_plus", "wickets.milestone_5",
    "wickets.milestone_4", "wickets.milestone_3",
    "bowling_other.maiden_over", "bowling_other.dot_ball",
    "bowling_other.no_ball", "bowling_other.wide",
    "economy_rate.one_over.above_18",
    "economy_rate.one_to_two_overs.15_to_17.99",
    "economy_rate.one_to_two_overs.13_to_14.99",
    "economy_rate.one_to_two_overs.12_to_12.99",
    "economy_rate.one_to_two_overs.11_to_11.99",
    "economy_rate.one_to_two_overs.7_to_7.99",
    "economy_rate.one_to_two_overs.6_to_6.99",
    "economy_rate.one_to_two_overs.5_to_5.99",
    "economy_rate.one_to_two_overs.4_to_4.99",
    "economy_rate.one_to_two_overs.3_to_3.99",
    "economy_rate.one_to_two_overs.2_to_2.99",
    "economy_rate.one_to_two_overs.below_2",
    "economy_rate.min_2.1_overs.15_to_17.99",
    "economy_rate.min_2.1_overs.13_to_14.99",
    "economy_rate.min_2.1_overs.12_to_12.99",
    "economy_rate.min_2.1_overs.11_to_11.99",
    "economy_rate.min_2.1_overs.7_to_7.99",
    "economy_rate.min_2.1_overs.6_to_6.99",
    "economy_rate.min_2.1_overs.5_to_5.99",
    "economy_rate.min_2.1_overs.4_to_4.99",
    "economy_rate.min_2.1_overs.3_to_3.99",
    "economy_rate.min_2.1_overs.2_to_2.99",
    "economy_rate.min_2.1_overs.below_2",
    "economy_rate_differential.higher.70_plus",
    "economy_rate_differential.higher.60_to_69.99",
    "economy_rate_differential.higher.50_to_59.99",
    "economy_rate_differential.higher.40_to_49.99",
    "economy_rate_differential.higher.30_to_39.99",
    "economy_rate_differential.higher.20_to_29.99",
    "economy_rate_differential.lower.70_plus",
    "economy_rate_differential.lower.60_to_69.99",
    "economy_rate_differential.lower.50_to_59.99",
    "economy_rate_differential.lower.40_to_49.99",
    "economy_rate_differential.lower.30_to_39.99",
    "economy_rate_differential.lower.20_to_29.99",
    "fielding.catch_stumping_runout",
    "miscellaneous.player_of_match" >>

KeyIndex ==
    [ key \in { RuleKeys[i] : i \in 1..Len(RuleKeys) } |->
        CHOOSE i \in 1..Len(RuleKeys) : RuleKeys[i] = key ]

RoleIndex(role) == CASE role = "Batter" -> 1 [] role = "Bowler" -> 2 [] role = "Keeper" -> 3

\* The keys whose value is a penalty in the tables the model loads.
PenaltyKeys == {
    "run_scoring.duck", "strike_rate.below_70", "strike_rate.below_90",
    "bowling_other.no_ball", "bowling_other.wide", "economy_rate.one_over.above_18" }

\* The tables load_config_files may have loaded (config/scoring_rules.json is
\* configuration, not code): whole points, distinct for distinct keys of a role.
RuleTables == {1, 2}

\* scoring_rules[...][role], in whole points.
ScoringRule(key, role) ==
    (IF key \in PenaltyKeys THEN -1 ELSE 1)
        * (scoring_rules * KeyIndex[key] + RoleIndex(role))

\* A term of a points bucket: amount * scoring_rules[key][role], with the
\* amount in sixths (a whole count n is 6n sixths).
Term(key, sixths) == <<key, sixths>>

Whole(n) == 6 * n

RECURSIVE SumTerms(_, _)
SumTerms(terms, role) ==
    IF terms = {} THEN 0
    ELSE LET t == CHOOSE u \in terms : TRUE
         IN  t[2] * ScoringRule(t[1], role) + SumTerms(terms \ {t}, role)

Keys(terms) == {t[1] : t \in terms}

\* Rule tables that lack the entry of one role under one key.
IncompleteRuleTables == {3, 4, 5, 6}

\* The <<key, role>> entries the loaded table lacks.
MissingRules ==
    CASE scoring_rules = 3 -> { <<"miscellaneous.player_of_match", "Batter">> }
      [] scoring_rules = 4 -> { <<"run_scoring.milestone_50", "Batter">> }
      [] scoring_rules = 5 -> { <<"fielding.catch_stumping_runout", "Batter">> }
      [] scoring_rules = 6 -> { <<"wickets.per_wicket", "Batter">> }
      [] OTHER -> {}

\* scoring_rules[...][player_role] raises KeyError for one of the keys looked up.
RuleLookupFails(keys, role) == \E key \in keys : <<key, role>> \in MissingRules

-----------------------------------------------------------------------------
(* Statistics records.                                                     *)

\* Mutant of create_default_player_stats: the defaults say the player batted.
create_default_player_stats_batted ==
    [ runs_scored |-> 0, balls_faced |-> 0, fours |-> 0, sixes |-> 0,
      strike_rate |-> 0, sr_differential |-> 0,
      overs |-> 0, economy |-> 0, economy_differential |-> 0,
      wickets |-> 0, dots |-> 0, wides |-> 0, no_balls |-> 0,
      catches |-> 0, run_outs |-> 0, did_not_bat |-> "No", stumping |-> 0,
      maiden |-> 0, potm |-> "No", is_sub |-> FALSE,
      runs_points |-> 0, strike_rate_points |-> 0, boundaries_points |-> 0,
      maiden_points |-> 0, potm_points |-> 0, wickets_points |-> 0,
      dots_points |-> 0, extras_points |-> 0, economy_points |-> 0,
      batting_points |-> 0, bowling_points |-> 0, fielding_points |-> 0,
      total_points |-> 0,
      non_numeric |-> {}, absent |-> {} ]

create_default_player_stats ==
    [ runs_scored |-> 0, balls_faced |-> 0, fours |-> 0, sixes |-> 0,
      strike_rate |-> 0, sr_differential |-> 0,
      overs |-> 0, economy |-> 0, economy_differential |-> 0,
      wickets |-> 0, dots |-> 0, wides |-> 0, no_balls |-> 0,
      catches |-> 0, run_outs |-> 0, did_not_bat |-> "Yes", stumping |-> 0,
      maiden |-> 0, potm |-> "No", is_sub |-> FALSE,
      runs_points |-> 0, strike_rate_points |-> 0, boundaries_points |-> 0,
      maiden_points |-> 0, potm_points |-> 0, wickets_points |-> 0,
      dots_points |-> 0, extras_points |-> 0, economy_points |-> 0,
      batting_points |-> 0, bowling_points |-> 0, fielding_points |-> 0,
      total_points |-> 0,
      non_numeric |-> {}, absent |-> {} ]

\* isinstance(stats[f], (int, float))
IsNumber(stats, f) == f \notin stats.non_numeric

\* not isinstance(stats[f], (int, float)) or stats[f] < 0; a key that is not
\* there raises KeyError, which every validating caller turns into zeros too
FailsValidation(stats, f) == f \in stats.absent \/ ~IsNumber(stats, f) \/ stats[f] < 0

\* Mutant of get_player_role: a default role instead of "Unknown".
get_player_role_default_batter(player_name) ==
    IF player_name \in DOMAIN player_roles THEN player_roles[player_name] ELSE "Batter"

get_player_role(player_name) ==
    IF player_name \in DOMAIN player_roles THEN player_roles[player_name] ELSE "Unknown"

-----------------------------------------------------------------------------
(* calculate_batting_points                                                *)

ZeroBatting ==
    [ batting_points |-> 0, runs_points |-> 0, strike_rate_points |-> 0,
      boundaries_points |-> 0, added |-> {} ]

\* Basic run scoring points (the run term is added whatever runs_scored is).
BasicRunTerms(stats) == { Term("run_scoring.run", Whole(stats.runs_scored)) }

BoundaryTerms(stats) ==
    { Term("run_scoring.four", Whole(stats.fours)),
      Term("run_scoring.six", Whole(stats.sixes)) }

\* Mutant of DuckTerms: the penalty for any 0, whether the player batted or not.
DuckTermsAnyZero(stats) ==
    IF stats.runs_scored = 0
    THEN { Term("run_scoring.duck", Whole(1)) }
    ELSE {}

\* Duck penalty
DuckTerms(stats) ==
    IF stats.runs_scored = 0 /\ stats.did_not_bat = "No"
    THEN { Term("run_scoring.duck", Whole(1)) }
    ELSE {}

\* Mutant of RunMilestoneTerms: independent ifs instead of the elif chain, so
\* every threshold reached adds its value.
RunMilestoneTermsStacked(stats) ==
    { Term(m[1], Whole(1)) :
        m \in { n \in { <<"run_scoring.milestone_150", 150>>, <<"run_scoring.milestone_100", 100>>,
                       <<"run_scoring.milestone_75", 75>>, <<"run_scoring.milestone_50", 50>>,
                       <<"run_scoring.milestone_30", 30>> } : stats.runs_scored >= n[2] } }

\* Run milestones
RunMilestoneTerms(stats) ==
    IF stats.runs_scored >= 150 THEN { Term("run_scoring.milestone_150", Whole(1)) }
    ELSE IF stats.runs_scored >= 100 THEN { Term("run_scoring.milestone_100", Whole(1)) }
    ELSE IF stats.runs_scored >= 75 THEN { Term("run_scoring.milestone_75", Whole(1)) }
    ELSE IF stats.runs_scored >= 50 THEN { Term("run_scoring.milestone_50", Whole(1)) }
    ELSE IF stats.runs_scored >= 30 THEN { Term("run_scoring.milestone_30", Whole(1)) }
    ELSE {}

\* Mutant of StrikeRateBonusTerms: the bonus is gated by balls faced (15), as
\* the penalty is, instead of by 20 runs.
StrikeRateBonusTermsBallGate(stats) ==
    IF stats.balls_faced >= 15
    THEN LET sr == stats.strike_rate
         IN  IF sr >= 30000 THEN { Term("strike_rate.above_300", Whole(1)) }
             ELSE IF sr >= 25000 THEN { Term("strike_rate.above_250", Whole(1)) }
             ELSE IF sr >= 20000 THEN { Term("strike_rate.above_200", Whole(1)) }
             ELSE IF sr >= 17000 THEN { Term("strike_rate.above_170", Whole(1)) }
             ELSE IF sr >= 15000 THEN { Term("strike_rate.above_150", Whole(1)) }
             ELSE {}
    ELSE {}

\* Strike rate bonuses (minimum 20 runs)
StrikeRateBonusTerms(stats) ==
    IF stats.runs_scored >= 20
    THEN LET sr == stats.strike_rate
         IN  IF sr >= 30000 THEN { Term("strike_rate.above_300", Whole(1)) }
             ELSE IF sr >= 25000 THEN { Term("strike_rate.above_250", Whole(1)) }
             ELSE IF sr >= 20000 THEN { Term("strike_rate.above_200", Whole(1)) }
             ELSE IF sr >= 17000 THEN { Term("strike_rate.above_170", Whole(1)) }
             ELSE IF sr >= 15000 THEN { Term("strike_rate.above_150", Whole(1)) }
             ELSE {}
    ELSE {}

\* Strike rate penalties (minimum 15 balls)
StrikeRatePenaltyTerms(stats) ==
    IF stats.balls_faced >= 15
    THEN LET sr == stats.strike_rate
         IN  IF sr < 7000 THEN { Term("strike_rate.below_70", Whole(1)) }
             ELSE IF sr < 9000 THEN { Term("strike_rate.below_90", Whole(1)) }
             ELSE {}
    ELSE {}

\* Mutant of SrDifferentialLowerTerms: the magnitude bands of the higher direction.
SrDifferentialLowerTermsMirrored(stats) ==
    LET sr_diff_abs == 0 - stats.sr_differential
        balls == stats.balls_faced
    IN  IF sr_diff_abs >= 2000 /\ balls >= 10
            THEN { Term("strike_rate_differential.lower.70_plus", Whole(1)) }
        ELSE IF sr_diff_abs >= 1000 /\ balls >= 10
            THEN { Term("strike_rate_differential.lower.60_to_69.99", Whole(1)) }
        ELSE IF sr_diff_abs >= 750 /\ balls >= 10
            THEN { Term("strike_rate_differential.lower.50_to_59.99", Whole(1)) }
        ELSE IF sr_diff_abs >= 500 /\ balls >= 12
            THEN { Term("strike_rate_differential.lower.40_to_49.99", Whole(1)) }
        ELSE IF sr_diff_abs >= 300 /\ balls >= 15
            THEN { Term("strike_rate_differential.lower.30_to_39.99", Whole(1)) }
        ELSE IF sr_diff_abs >= 200 /\ balls >= 15
            THEN { Term("strike_rate_differential.lower.20_to_29.99", Whole(1)) }
        ELSE {}

\* Mutant of SrDifferentialLowerTerms: the ball gates grow with the tier
\* (10 balls for the tiers nearest zero, 12 and 15 for the extreme ones).
SrDifferentialLowerTermsGatesGrow(stats) ==
    LET sr_diff_abs == 0 - stats.sr_differential
        balls == stats.balls_faced
    IN  IF sr_diff_abs >= 700 /\ balls >= 15
            THEN { Term("strike_rate_differential.lower.70_plus", Whole(1)) }
        ELSE IF sr_diff_abs >= 600 /\ balls >= 15
            THEN { Term("strike_rate_differential.lower.60_to_69.99", Whole(1)) }
        ELSE IF sr_diff_abs >= 500 /\ balls >= 12
            THEN { Term("strike_rate_differential.lower.50_to_59.99", Whole(1)) }
        ELSE IF sr_diff_abs >= 400 /\ balls >= 10
            THEN { Term("strike_rate_differential.lower.40_to_49.99", Whole(1)) }
        ELSE IF sr_diff_abs >= 300 /\ balls >= 10
            THEN { Term("strike_rate_differential.lower.30_to_39.99", Whole(1)) }
        ELSE IF sr_diff_abs >= 200 /\ balls >= 10
            THEN { Term("strike_rate_differential.lower.20_to_29.99", Whole(1)) }
        ELSE {}

\* Strike rate differential points: lower than innings SR
SrDifferentialLowerTerms(stats) ==
    LET sr_diff_abs == 0 - stats.sr_differential
        balls == stats.balls_faced
    IN  IF sr_diff_abs >= 700 /\ balls >= 10
            THEN { Term("strike_rate_differential.lower.70_plus", Whole(1)) }
        ELSE IF sr_diff_abs >= 600 /\ balls >= 10
            THEN { Term("strike_rate_differential.lower.60_to_69.99", Whole(1)) }
        ELSE IF sr_diff_abs >= 500 /\ balls >= 10
            THEN { Term("strike_rate_differential.lower.50_to_59.99", Whole(1)) }
        ELSE IF sr_diff_abs >= 400 /\ balls >= 12
            THEN { Term("strike_rate_differential.lower.40_to_49.99", Whole(1)) }
        ELSE IF sr_diff_abs >= 300 /\ balls >= 15
            THEN { Term("strike_rate_differential.lower.30_to_39.99", Whole(1)) }
        ELSE IF sr_diff_abs >= 200 /\ balls >= 15
            THEN { Term("strike_rate_differential.lower.20_to_29.99", Whole(1)) }
        ELSE {}

\* Mutant of SrDifferentialHigherTerms: the ball gates grow with the tier
\* (15 balls for the two highest tiers, 10 for the three lowest).
SrDifferentialHigherTermsGatesGrow(stats) ==
    LET sr_diff == stats.sr_differential
        balls == stats.balls_faced
    IN  IF sr_diff >= 2000 /\ balls >= 15
            THEN { Term("strike_rate_differential.higher.200_plus", Whole(1)) }
        ELSE IF sr_diff >= 1000 /\ balls >= 15
            THEN { Term("strike_rate_differential.higher.100_to_199.99", Whole(1)) }
        ELSE IF sr_diff >= 750 /\ balls >= 12
            THEN { Term("strike_rate_differential.higher.75_to_99.99", Whole(1)) }
        ELSE IF sr_diff >= 500 /\ balls >= 10
            THEN { Term("strike_rate_differential.higher.50_to_74.99", Whole(1)) }
        ELSE IF sr_diff >= 300 /\ balls >= 10
            THEN { Term("strike_rate_differential.higher.30_to_49.99", Whole(1)) }
        ELSE IF sr_diff >= 200 /\ balls >= 10
            THEN { Term("strike_rate_differential.higher.20_to_29.99", Whole(1)) }
        ELSE {}

\* Strike rate differential points: higher than innings SR
SrDifferentialHigherTerms(stats) ==
    LET sr_diff == stats.sr_differential
        balls == stats.balls_faced
    IN  IF sr_diff >= 2000 /\ balls >= 10
            THEN { Term("strike_rate_differential.higher.200_plus", Whole(1)) }
        ELSE IF sr_diff >= 1000 /\ balls >= 10
            THEN { Term("strike_rate_differential.higher.100_to_199.99", Whole(1)) }
        ELSE IF sr_diff >= 750 /\ balls >= 10
            THEN { Term("strike_rate_differential.higher.75_to_99.99", Whole(1)) }
        ELSE IF sr_diff >= 500 /\ balls >= 12
            THEN { Term("strike_rate_differential.higher.50_to_74.99", Whole(1)) }
        ELSE IF sr_diff >= 300 /\ balls >= 15
            THEN { Term("strike_rate_differential.higher.30_to_49.99", Whole(1)) }
        ELSE IF sr_diff >= 200 /\ balls >= 15
            THEN { Term("strike_rate_differential.higher.20_to_29.99", Whole(1)) }
        ELSE {}

SrDifferentialTerms(stats) ==
    IF stats.sr_differential < 0
    THEN SrDifferentialLowerTerms(stats)
    ELSE SrDifferentialHigherTerms(stats)

\* The keys the body reads after validation: did_not_bat only for 0 runs,
\* strike_rate only behind the 20-run and the 15-ball gates.
BattingReads(stats) ==
    {"sr_differential"}
        \cup (IF stats.runs_scored = 0 THEN {"did_not_bat"} ELSE {})
        \cup (IF stats.runs_scored >= 20 \/ stats.balls_faced >= 15
              THEN {"strike_rate"} ELSE {})

\* except (TypeError, ValueError) / except KeyError: a value the body reads
\* that is not a number, or a key that is not there.
BattingError(stats) ==
    \/ BattingReads(stats) \cap stats.non_numeric # {}
    \/ (BattingReads(stats) \cup {"runs_scored", "balls_faced", "fours", "sixes"})
            \cap stats.absent # {}

BattingResult(stats, role) ==
    LET runs_terms == BasicRunTerms(stats) \cup DuckTerms(stats) \cup RunMilestoneTerms(stats)
        sr_terms == StrikeRateBonusTerms(stats) \cup StrikeRatePenaltyTerms(stats)
                        \cup SrDifferentialTerms(stats)
        boundaries_terms == BoundaryTerms(stats)
        runs_points == SumTerms(runs_terms, role)
        strike_rate_points == SumTerms(sr_terms, role)
        boundaries_points == SumTerms(boundaries_terms, role)
    IN  [ batting_points |-> runs_points + strike_rate_points + boundaries_points,
          runs_points |-> runs_points,
          strike_rate_points |-> strike_rate_points,
          boundaries_points |-> boundaries_points,
          added |-> Keys(runs_terms \cup sr_terms \cup boundaries_terms) ]

calculate_batting_points(stats, player_name) ==
    LET player_role == get_player_role(player_name)
    IN  IF player_role = "Unknown" THEN ZeroBatting
        ELSE IF FailsValidation(stats, "runs_scored") THEN ZeroBatting
        ELSE IF FailsValidation(stats, "balls_faced") THEN ZeroBatting
        ELSE IF FailsValidation(stats, "fours") THEN ZeroBatting
        ELSE IF FailsValidation(stats, "sixes") THEN ZeroBatting
        ELSE IF BattingError(stats) THEN ZeroBatting
        ELSE IF RuleLookupFails(BattingResult(stats, player_role).added, player_role)
             THEN ZeroBatting
        ELSE BattingResult(stats, player_role)

-----------------------------------------------------------------------------
(* calculate_bowling_points                                                *)

ZeroBowling ==
    [ bowling_points |-> 0, wickets_points |-> 0, maiden_points |-> 0,
      economy_points |-> 0, extras_points |-> 0, dots_points |-> 0, added |-> {} ]

\* Points for wickets
PerWicketTerms(stats) == { Term("wickets.per_wicket", Whole(stats.wickets)) }

\* Wicket milestones
WicketMilestoneTerms(stats) ==
    IF stats.wickets >= 6 THEN { Term("wickets.milestone_6_plus", Whole(1)) }
    ELSE IF stats.wickets >= 5 THEN { Term("wickets.milestone_5", Whole(1)) }
    ELSE IF stats.wickets >= 4 THEN { Term("wickets.milestone_4", Whole(1)) }
    ELSE IF stats.wickets >= 3 THEN { Term("wickets.milestone_3", Whole(1)) }
    ELSE {}

\* Other bowling points
MaidenTerms(stats) == { Term("bowling_other.maiden_over", Whole(stats.maiden)) }

DotsTerms(stats) == { Term("bowling_other.dot_ball", Whole(stats.dots)) }

ExtrasTerms(stats) ==
    { Term("bowling_other.no_ball", Whole(stats.no_balls)),
      Term("bowling_other.wide", Whole(stats.wides)) }

\* if overs >= 1: 1 over minimum rules
OneOverTerms(stats) ==
    IF stats.overs >= 100 /\ stats.economy >= 1800
    THEN { Term("economy_rate.one_over.above_18", Whole(1)) }
    ELSE {}

\* the 1-2 over band table, entered when overs > 1 and overs <= 2
OneToTwoBandTerms(economy) ==
        IF 1500 <= economy /\ economy < 1800
            THEN { Term("economy_rate.one_to_two_overs.15_to_17.99", Whole(1)) }
        ELSE IF 1300 <= economy /\ economy < 1500
            THEN { Term("economy_rate.one_to_two_overs.13_to_14.99", Whole(1)) }
        ELSE IF 1200 <= economy /\ economy < 1300
            THEN { Term("economy_rate.one_to_two_overs.12_to_12.99", Whole(1)) }
        ELSE IF 1100 <= economy /\ economy < 1200
            THEN { Term("economy_rate.one_to_two_overs.11_to_11.99", Whole(1)) }
        ELSE IF 700 <= economy /\ economy < 800
            THEN { Term("economy_rate.one_to_two_overs.7_to_7.99", Whole(1)) }
        ELSE IF 600 <= economy /\ economy < 700
            THEN { Term("economy_rate.one_to_two_overs.6_to_6.99", Whole(1)) }
        ELSE IF 500 <= economy /\ economy < 600
            THEN { Term("economy_rate.one_to_two_overs.5_to_5.99", Whole(1)) }
        ELSE IF 400 <= economy /\ economy < 500
            THEN { Term("economy_rate.one_to_two_overs.4_to_4.99", Whole(1)) }
        ELSE IF 300 <= economy /\ economy < 400
            THEN { Term("economy_rate.one_to_two_overs.3_to_3.99", Whole(1)) }
        ELSE IF 200 <= economy /\ economy < 300
            THEN { Term("economy_rate.one_to_two_overs.2_to_2.99", Whole(1)) }
        ELSE IF economy < 200
            THEN { Term("economy_rate.one_to_two_overs.below_2", Whole(1)) }
        ELSE {}

\* Mutant of OneToTwoOversTerms: overs > 1 without the upper limit.
OneToTwoOversTermsNoUpperLimit(stats) ==
    IF stats.overs > 100
    THEN OneToTwoBandTerms(stats.economy)
    ELSE {}

OneToTwoOversTerms(stats) ==
    IF stats.overs > 100 /\ stats.overs <= 200
    THEN OneToTwoBandTerms(stats.economy)
    ELSE {}

\* the 2.1+ overs band table, entered when overs > 2.1
MinTwoPointOneBandTerms(economy) ==
        IF 1500 <= economy /\ economy < 1800
            THEN { Term("economy_rate.min_2.1_overs.15_to_17.99", Whole(1)) }
        ELSE IF 1300 <= economy /\ economy < 1500
            THEN { Term("economy_rate.min_2.1_overs.13_to_14.99", Whole(1)) }
        ELSE IF 1200 <= economy /\ economy < 1300
            THEN { Term("economy_rate.min_2.1_overs.12_to_12.99", Whole(1)) }
        ELSE IF 1100 <= economy /\ economy < 1200
            THEN { Term("economy_rate.min_2.1_overs.11_to_11.99", Whole(1)) }
        ELSE IF 700 <= economy /\ economy < 800
            THEN { Term("economy_rate.min_2.1_overs.7_to_7.99", Whole(1)) }
        ELSE IF 600 <= economy /\ economy < 700
            THEN { Term("economy_rate.min_2.1_overs.6_to_6.99", Whole(1)) }
        ELSE IF 500 <= economy /\ economy < 600
            THEN { Term("economy_rate.min_2.1_overs.5_to_5.99", Whole(1)) }
        ELSE IF 400 <= economy /\ economy < 500
            THEN { Term("economy_rate.min_2.1_overs.4_to_4.99", Whole(1)) }
        ELSE IF 300 <= economy /\ economy < 400
            THEN { Term("economy_rate.min_2.1_overs.3_to_3.99", Whole(1)) }
        ELSE IF 200 <= economy /\ economy < 300
            THEN { Term("economy_rate.min_2.1_overs.2_to_2.99", Whole(1)) }
        ELSE IF economy < 200
            THEN { Term("economy_rate.min_2.1_overs.below_2", Whole(1)) }
        ELSE {}

\* Mutant of MinTwoPointOneOversTerms: overs >= 2.1 instead of overs > 2.1.
MinTwoPointOneOversTermsFrom21(stats) ==
    IF stats.overs >= 210
    THEN MinTwoPointOneBandTerms(stats.economy)
    ELSE {}

MinTwoPointOneOversTerms(stats) ==
    IF stats.overs > 210
    THEN MinTwoPointOneBandTerms(stats.economy)
    ELSE {}

\* Higher than innings economy (eco_diff > 0)
EcoDifferentialHigherTerms(eco_diff) ==
        IF eco_diff >= 700
            THEN { Term("economy_rate_differential.higher.70_plus", Whole(1)) }
        ELSE IF eco_diff >= 600
            THEN { Term("economy_rate_differential.higher.60_to_69.99", Whole(1)) }
        ELSE IF eco_diff >= 500
            THEN { Term("economy_rate_differential.higher.50_to_59.99", Whole(1)) }
        ELSE IF eco_diff >= 400
            THEN { Term("economy_rate_differential.higher.40_to_49.99", Whole(1)) }
        ELSE IF eco_diff >= 300
            THEN { Term("economy_rate_differential.higher.30_to_39.99", Whole(1)) }
        ELSE IF eco_diff >= 200
            THEN { Term("economy_rate_differential.higher.20_to_29.99", Whole(1)) }
        ELSE {}

\* Lower than innings economy
EcoDifferentialLowerTerms(eco_diff_abs) ==
        IF eco_diff_abs >= 700
            THEN { Term("economy_rate_differential.lower.70_plus", Whole(1)) }
        ELSE IF eco_diff_abs >= 600
            THEN { Term("economy_rate_differential.lower.60_to_69.99", Whole(1)) }
        ELSE IF eco_diff_abs >= 500
            THEN { Term("economy_rate_differential.lower.50_to_59.99", Whole(1)) }
        ELSE IF eco_diff_abs >= 400
            THEN { Term("economy_rate_differential.lower.40_to_49.99", Whole(1)) }
        ELSE IF eco_diff_abs >= 300
            THEN { Term("economy_rate_differential.lower.30_to_39.99", Whole(1)) }
        ELSE IF eco_diff_abs >= 200
            THEN { Term("economy_rate_differential.lower.20_to_29.99", Whole(1)) }
        ELSE {}

\* Mutant of EcoDifferentialTerms: the differential block outside the
\* overs > 2.1 branch.
EcoDifferentialTermsUngated(stats) ==
    IF stats.economy_differential > 0
    THEN EcoDifferentialHigherTerms(stats.economy_differential)
    ELSE EcoDifferentialLowerTerms(0 - stats.economy_differential)

\* Economy rate differential points (only for 2.1+ overs)
EcoDifferentialTerms(stats) ==
    IF stats.overs > 210
    THEN IF stats.economy_differential > 0
         THEN EcoDifferentialHigherTerms(stats.economy_differential)
         ELSE EcoDifferentialLowerTerms(0 - stats.economy_differential)
    ELSE {}

\* The keys the body reads after validation: no_balls and wides are
\* multiplied always, economy is read with overs, economy_differential only
\* above 2.1 overs.
BowlingReads(stats) ==
    {"no_balls", "wides", "economy"}
        \cup (IF stats.overs > 210 THEN {"economy_differential"} ELSE {})

\* The values the body computes with (economy is compared only from 1 over on).
BowlingComputes(stats) ==
    {"no_balls", "wides"}
        \cup (IF stats.overs >= 100 THEN {"economy"} ELSE {})
        \cup (IF stats.overs > 210 THEN {"economy_differential"} ELSE {})

\* except (TypeError, ValueError) / except KeyError
BowlingError(stats) ==
    \/ BowlingComputes(stats) \cap stats.non_numeric # {}
    \/ (BowlingReads(stats) \cup {"overs", "wickets", "dots", "maiden"})
            \cap stats.absent # {}

BowlingResult(stats, role) ==
    LET wickets_terms == PerWicketTerms(stats) \cup WicketMilestoneTerms(stats)
        maiden_terms == MaidenTerms(stats)
        dots_terms == DotsTerms(stats)
        extras_terms == ExtrasTerms(stats)
        economy_terms == OneOverTerms(stats) \cup OneToTwoOversTerms(stats)
                            \cup MinTwoPointOneOversTerms(stats)
                            \cup EcoDifferentialTerms(stats)
        wickets_points == SumTerms(wickets_terms, role)
        maiden_points == SumTerms(maiden_terms, role)
        economy_points == SumTerms(economy_terms, role)
        extras_points == SumTerms(extras_terms, role)
        dots_points == SumTerms(dots_terms, role)
    IN  [ bowling_points |-> wickets_points + maiden_points + economy_points
                                + extras_points + dots_points,
          wickets_points |-> wickets_points,
          maiden_points |-> maiden_points,
          economy_points |-> economy_points,
          extras_points |-> extras_points,
          dots_points |-> dots_points,
          added |-> Keys(wickets_terms \cup maiden_terms \cup dots_terms
                            \cup extras_terms \cup economy_terms) ]

calculate_bowling_points(stats, player_name) ==
    LET player_role == get_player_role(player_name)
    IN  IF player_role = "Unknown" THEN ZeroBowling
        ELSE IF FailsValidation(stats, "overs") THEN ZeroBowling
        ELSE IF FailsValidation(stats, "wickets") THEN ZeroBowling
        ELSE IF FailsValidation(stats, "dots") THEN ZeroBowling
        ELSE IF FailsValidation(stats, "maiden") THEN ZeroBowling
        ELSE IF BowlingError(stats) THEN ZeroBowling
        ELSE IF RuleLookupFails(BowlingResult(stats, player_role).added, player_role)
             THEN ZeroBowling
        ELSE BowlingResult(stats, player_role)

-----------------------------------------------------------------------------
(* calculate_fielding_points, calculate_potm_points                        *)

\* catches + stumping + run_outs, in sixths of a dismissal
FieldingActions(stats) == Whole(stats.catches) + Whole(stats.stumping) + stats.run_outs

FieldingTerms(stats) ==
    { Term("fielding.catch_stumping_runout", FieldingActions(stats)) }

calculate_fielding_points(stats, player_name) ==
    LET player_role == get_player_role(player_name)
    IN  IF player_role = "Unknown" THEN 0
        ELSE IF FailsValidation(stats, "catches") THEN 0
        ELSE IF FailsValidation(stats, "stumping") THEN 0
        ELSE IF FailsValidation(stats, "run_outs") THEN 0
        ELSE IF RuleLookupFails(Keys(FieldingTerms(stats)), player_role) THEN 0
        ELSE SumTerms(FieldingTerms(stats), player_role)

\* calculate_potm_points has no try: stats['potm'] of a record without the key
\* raises KeyError out of it, and so does the rule lookup of a player of the
\* match whose role the table has no player_of_match entry for.
PotmRaises(stats, player_name) ==
    /\ get_player_role(player_name) # "Unknown"
    /\ \/ "potm" \in stats.absent
       \/ /\ stats.potm = "Yes"
          /\ RuleLookupFails({"miscellaneous.player_of_match"}, get_player_role(player_name))

calculate_potm_points(stats, player_name) ==
    LET player_role == get_player_role(player_name)
    IN  IF player_role = "Unknown" THEN 0
        ELSE IF stats.potm = "Yes"
             THEN SumTerms({ Term("miscellaneous.player_of_match", Whole(1)) }, player_role)
             ELSE 0

-----------------------------------------------------------------------------
(* calculate_scores_and_update_sheet                                       *)

\* round(x, 2) of x sixths of a point, in hundredths (x/6 is never half-way
\* between two hundredths).
Round2(sixths) == (100 * sixths + 3) \div 6

\* What the four calculate_* calls returned for one player.
PlayerResult(stats, player_name) ==
    [ batting |-> calculate_batting_points(stats, player_name),
      bowling |-> calculate_bowling_points(stats, player_name),
      fielding_points |-> calculate_fielding_points(stats, player_name),
      potm_points |-> calculate_potm_points(stats, player_name) ]

NoResult ==
    [ batting |-> ZeroBatting, bowling |-> ZeroBowling,
      fielding_points |-> 0, potm_points |-> 0 ]

\* Mutant of UpdateStats: total_points without the player-of-match points.
UpdateStatsTotalWithoutPotm(stats, r) ==
    [ stats EXCEPT
        !.batting_points = Round2(r.batting.batting_points),
        !.runs_points = Round2(r.batting.runs_points),
        !.strike_rate_points = Round2(r.batting.strike_rate_points),
        !.boundaries_points = Round2(r.batting.boundaries_points),
        !.bowling_points = Round2(r.bowling.bowling_points),
        !.wickets_points = Round2(r.bowling.wickets_points),
        !.maiden_points = Round2(r.bowling.maiden_points),
        !.economy_points = Round2(r.bowling.economy_points),
        !.extras_points = Round2(r.bowling.extras_points),
        !.dots_points = Round2(r.bowling.dots_points),
        !.fielding_points = Round2(r.fielding_points),
        !.potm_points = Round2(r.potm_points),
        !.total_points = Round2(r.batting.batting_points + r.bowling.bowling_points
                                    + r.fielding_points) ]

\* Mutant of UpdateStats: total_points accumulated onto the stored value
\* (stats['total_points'] += ...).
UpdateStatsAccumulating(stats, r) ==
    [ stats EXCEPT
        !.batting_points = Round2(r.batting.batting_points),
        !.runs_points = Round2(r.batting.runs_points),
        !.strike_rate_points = Round2(r.batting.strike_rate_points),
        !.boundaries_points = Round2(r.batting.boundaries_points),
        !.bowling_points = Round2(r.bowling.bowling_points),
        !.wickets_points = Round2(r.bowling.wickets_points),
        !.maiden_points = Round2(r.bowling.maiden_points),
        !.economy_points = Round2(r.bowling.economy_points),
        !.extras_points = Round2(r.bowling.extras_points),
        !.dots_points = Round2(r.bowling.dots_points),
        !.fielding_points = Round2(r.fielding_points),
        !.potm_points = Round2(r.potm_points),
        !.total_points = stats.total_points
                            + Round2(r.batting.batting_points + r.bowling.bowling_points
                                        + r.fielding_points + r.potm_points) ]

\* stats.update({...}): the points fields, each rounded to 2 decimals
UpdateStats(stats, r) ==
    [ stats EXCEPT
        !.batting_points = Round2(r.batting.batting_points),
        !.runs_points = Round2(r.batting.runs_points),
        !.strike_rate_points = Round2(r.batting.strike_rate_points),
        !.boundaries_points = Round2(r.batting.boundaries_points),
        !.bowling_points = Round2(r.bowling.bowling_points),
        !.wickets_points = Round2(r.bowling.wickets_points),
        !.maiden_points = Round2(r.bowling.maiden_points),
        !.economy_points = Round2(r.bowling.economy_points),
        !.extras_points = Round2(r.bowling.extras_points),
        !.dots_points = Round2(r.bowling.dots_points),
        !.fielding_points = Round2(r.fielding_points),
        !.potm_points = Round2(r.potm_points),
        !.total_points = Round2(r.batting.batting_points + r.bowling.bowling_points
                                    + r.fielding_points + r.potm_points) ]

Teams == DOMAIN scorecard_data

PlayersOf(team) == DOMAIN scorecard_data[team].player_stats

StatsOf(team, player) == scorecard_data[team].player_stats[player]

\* The players get_player_role reports as unknown.
UnknownPlayers ==
    UNION { { p \in PlayersOf(t) : get_player_role(p) = "Unknown" } : t \in Teams }

\* One call on the scorecard file: every player of every team is scored and
\* the file is rewritten; an exception leaves the file as it was.
CalculateScores ==
    /\ pc = "saved"
    /\ run_count < MaxRuns
    /\ run_count' = run_count + 1
    /\ IF \E t \in Teams : \E p \in PlayersOf(t) : PotmRaises(StatsOf(t, p), p)
       THEN /\ raised' = TRUE
            /\ \E seen \in SUBSET UnknownPlayers :
                   unknown_role_players' = unknown_role_players \cup seen
            /\ UNCHANGED <<scorecard_data, returned>>
       ELSE LET results == [ t \in Teams |->
                               [ p \in PlayersOf(t) |-> PlayerResult(StatsOf(t, p), p) ] ]
            IN  /\ raised' = FALSE
                /\ unknown_role_players' = unknown_role_players \cup UnknownPlayers
                /\ returned' = results
                /\ scorecard_data' =
                       [ t \in Teams |->
                           [ scorecard_data[t] EXCEPT !.player_stats =
                               [ p \in PlayersOf(t) |->
                                   UpdateStats(StatsOf(t, p), results[t][p]) ] ] ]
    /\ UNCHANGED <<lookup, lookup_results>>
    /\ UNCHANGED <<blob, current_time, response>>
    /\ UNCHANGED <<scoring_rules, player_roles, pc, all_players, document,
                   dismissal_records, innings_num, row_num>>

-----------------------------------------------------------------------------
(* scorecard_scraper.py: the scorecard page and the lists it holds.        *)
(* A text cell is modelled by its number and the row's set of cells that   *)
(* do not parse (int()/float() raise ValueError on them).  A player link   *)
(* is its name and the marks printed with it; a dismissal text is its      *)
(* kind ("not out", "b", "c", "st", "c & b", "run out", "" for an empty    *)
(* cell), the fielder fragments it names and whether it names a substitute.*)

\* None
NoName == ""

\* clean_player_name: the marks are removed, the dagger is reported
clean_player_name(link) ==
    [ name |-> link.text, is_wicketkeeper |-> "dagger" \in link.marks ]

Link(text, marks) == [ text |-> text, marks |-> marks ]

DismissalText(kind, fielders, sub) == [ kind |-> kind, fielders |-> fielders, sub |-> sub ]

\* name.lower().split() of the names and fragments of the modelled pages and roster
NameParts ==
    ("Rohit Sharma" :> <<"rohit", "sharma">>) @@ ("Ishan Kishan" :> <<"ishan", "kishan">>)
    @@ ("Jasprit Bumrah" :> <<"jasprit", "bumrah">>) @@ ("Tim David" :> <<"tim", "david">>)
    @@ ("Ruturaj Gaikwad" :> <<"ruturaj", "gaikwad">>) @@ ("MS Dhoni" :> <<"ms", "dhoni">>)
    @@ ("Deepak Chahar" :> <<"deepak", "chahar">>) @@ ("Rahul Chahar" :> <<"rahul", "chahar">>)
    @@ ("Mitchell Santner" :> <<"mitchell", "santner">>)
    @@ ("Dhoni" :> <<"dhoni">>) @@ ("Chahar" :> <<"chahar">>) @@ ("D Chahar" :> <<"d", "chahar">>)
    @@ ("Kishan" :> <<"kishan">>) @@ ("Sharma" :> <<"sharma">>) @@ ("Jadeja" :> <<"jadeja">>)
    @@ ("Jitesh Sharma" :> <<"jitesh", "sharma">>) @@ ("Suyash Sharma" :> <<"suyash", "sharma">>)
    @@ ("Virat Kohli" :> <<"virat", "kohli">>) @@ ("Virat Singh" :> <<"virat", "singh">>)
    @@ ("J Sharma" :> <<"j", "sharma">>) @@ ("Virat K" :> <<"virat", "k">>)
    @@ ("Suyash P" :> <<"suyash", "p">>) @@ ("Kohli" :> <<"kohli">>)
    @@ ("" :> <<>>)

\* token[0]
FirstLetter ==
    ("rohit" :> "r") @@ ("ishan" :> "i") @@ ("jasprit" :> "j") @@ ("tim" :> "t")
    @@ ("ruturaj" :> "r") @@ ("ms" :> "m") @@ ("deepak" :> "d") @@ ("rahul" :> "r")
    @@ ("mitchell" :> "m") @@ ("d" :> "d") @@ ("jitesh" :> "j") @@ ("suyash" :> "s")
    @@ ("virat" :> "v") @@ ("j" :> "j")

\* normalize_team_name
normalize_team_name(team_name) ==
    CASE team_name \in {"Chennai Super Kings", "Chennai Superkings"} -> "Chennai Superkings"
      [] team_name \in {"Royal Challengers Bangalore", "Royal Challengers Bengaluru"}
            -> "Royal Challengers Bengaluru"
      [] OTHER -> team_name

Last(seq) == IF Len(seq) > 0 THEN seq[Len(seq)] ELSE ""

\* team_players = [p['name'] for p in all_players if normalize_team_name(p['team']) == normalized_team]
TeamPlayers(players, team_name) ==
    LET OfTeam(p) == normalize_team_name(p.team) = normalize_team_name(team_name)
        team_entries == SelectSeq(players, OfTeam)
    IN  [ i \in 1..Len(team_entries) |-> team_entries[i].name ]

\* next((pl['role'] for pl in all_players if pl['name'] == p), None)
RoleIn(players, p) ==
    LET Named(pl) == pl.name = p
        found == SelectSeq(players, Named)
    IN  IF Len(found) > 0 THEN found[1].role ELSE "None"

Found(p) == [ matched_name |-> p, is_new |-> FALSE, error_msg |-> "None" ]

Failed(why) == [ matched_name |-> NoName, is_new |-> FALSE, error_msg |-> why ]

\* Mutant of Disambiguate: when no filter leaves one candidate, the first is taken.
DisambiguateGuessing(players, last_name_matches, name, existing_players, is_wicketkeeper) ==
    LET name_parts == NameParts[name]
        first_name == IF Len(name_parts) > 1 THEN name_parts[1] ELSE ""
        first_letter == IF first_name # "" THEN FirstLetter[first_name] ELSE ""
        HasFirstLetter(p) == FirstLetter[NameParts[p][1]] = first_letter
        first_letter_matches == SelectSeq(last_name_matches, HasFirstLetter)
        IsExisting(p) == p \in existing_players
        matches_in_existing == SelectSeq(last_name_matches, IsExisting)
        IsKeeper(p) == RoleIn(players, p) = "Keeper"
        NotKeeper(p) == RoleIn(players, p) # "Keeper"
        keeper_matches == SelectSeq(last_name_matches, IsKeeper)
        non_keeper_matches == SelectSeq(last_name_matches, NotKeeper)
    IN  IF Len(name_parts) > 1 /\ Len(first_letter_matches) = 1
        THEN Found(first_letter_matches[1])
        ELSE IF existing_players # {} /\ Len(matches_in_existing) = 1
        THEN Found(matches_in_existing[1])
        ELSE IF is_wicketkeeper /\ Len(keeper_matches) = 1
        THEN Found(keeper_matches[1])
        ELSE IF ~is_wicketkeeper /\ Len(non_keeper_matches) = 1
        THEN Found(non_keeper_matches[1])
        ELSE Found(last_name_matches[1])

\* Mutant of Disambiguate: the observed player set is tried before the first letter.
DisambiguateExistingFirst(players, last_name_matches, name, existing_players, is_wicketkeeper) ==
    LET name_parts == NameParts[name]
        first_name == IF Len(name_parts) > 1 THEN name_parts[1] ELSE ""
        first_letter == IF first_name # "" THEN FirstLetter[first_name] ELSE ""
        HasFirstLetter(p) == FirstLetter[NameParts[p][1]] = first_letter
        first_letter_matches == SelectSeq(last_name_matches, HasFirstLetter)
        IsExisting(p) == p \in existing_players
        matches_in_existing == SelectSeq(last_name_matches, IsExisting)
        IsKeeper(p) == RoleIn(players, p) = "Keeper"
        NotKeeper(p) == RoleIn(players, p) # "Keeper"
        keeper_matches == SelectSeq(last_name_matches, IsKeeper)
        non_keeper_matches == SelectSeq(last_name_matches, NotKeeper)
    IN  IF existing_players # {} /\ Len(matches_in_existing) = 1
        THEN Found(matches_in_existing[1])
        ELSE IF Len(name_parts) > 1 /\ Len(first_letter_matches) = 1
        THEN Found(first_letter_matches[1])
        ELSE IF is_wicketkeeper /\ Len(keeper_matches) = 1
        THEN Found(keeper_matches[1])
        ELSE IF ~is_wicketkeeper /\ Len(non_keeper_matches) = 1
        THEN Found(non_keeper_matches[1])
        ELSE Failed("Multiple unresolved last name matches")

\* Multiple last name matches - try to resolve
Disambiguate(players, last_name_matches, name, existing_players, is_wicketkeeper) ==
    LET name_parts == NameParts[name]
        first_name == IF Len(name_parts) > 1 THEN name_parts[1] ELSE ""
        first_letter == IF first_name # "" THEN FirstLetter[first_name] ELSE ""
        has_multiple_parts == Len(name_parts) > 1
        HasFirstLetter(p) == FirstLetter[NameParts[p][1]] = first_letter
        first_letter_matches == SelectSeq(last_name_matches, HasFirstLetter)
        IsExisting(p) == p \in existing_players
        matches_in_existing == SelectSeq(last_name_matches, IsExisting)
        IsKeeper(p) == RoleIn(players, p) = "Keeper"
        NotKeeper(p) == RoleIn(players, p) # "Keeper"
        keeper_matches == SelectSeq(last_name_matches, IsKeeper)
        non_keeper_matches == SelectSeq(last_name_matches, NotKeeper)
    IN  IF has_multiple_parts /\ Len(first_letter_matches) = 1
        THEN Found(first_letter_matches[1])
        ELSE IF existing_players # {} /\ Len(matches_in_existing) = 1
        THEN Found(matches_in_existing[1])
        ELSE IF is_wicketkeeper /\ Len(keeper_matches) = 1
        THEN Found(keeper_matches[1])
        ELSE IF ~is_wicketkeeper /\ Len(non_keeper_matches) = 1
        THEN Found(non_keeper_matches[1])
        ELSE Failed("Multiple unresolved last name matches")

\* find_matching_player against the roster list players:
\* <<matched name or None, is_new, error class>>
FindMatchingPlayer(players, name, team_name, existing_players, is_wicketkeeper) ==
    LET name_parts == NameParts[name]
        last_name == Last(name_parts)
        team_players == TeamPlayers(players, team_name)
        IsExact(p) == NameParts[p] = name_parts
        exact == SelectSeq(team_players, IsExact)
        HasLastName(p) == Last(NameParts[p]) = last_name
        last_name_matches == SelectSeq(team_players, HasLastName)
    IN  IF Len(team_players) = 0 THEN Failed("No players found for team")
        ELSE IF Len(exact) > 0 THEN Found(exact[1])
        ELSE IF Len(last_name_matches) = 1 THEN Found(last_name_matches[1])
        ELSE IF Len(last_name_matches) > 1
             THEN Disambiguate(players, last_name_matches, name, existing_players,
                               is_wicketkeeper)
        ELSE Failed("No match found")

\* find_matching_player: the roster is read from players.json on every call
find_matching_player(name, team_name, existing_players, players_data, is_wicketkeeper) ==
    FindMatchingPlayer(all_players, name, team_name, existing_players, is_wicketkeeper)

\* A direct call of find_matching_player (as test_player_matching makes one).
Lookup ==
    /\ Len(lookup_results) < MaxLookups
    /\ lookup.name # NoName
    /\ lookup_results' =
           Append(lookup_results,
                  find_matching_player(lookup.name, lookup.team_name, lookup.existing_players,
                                       <<>>, lookup.is_wicketkeeper))
    /\ UNCHANGED <<scorecard_data, scoring_rules, player_roles, unknown_role_players,
                   returned, run_count, raised, pc, all_players, document, dismissal_records,
                   innings_num, row_num, lookup>>
    /\ UNCHANGED <<blob, current_time, response>>

\* parse_dismissal_text: the (fielder_name, is_wicketkeeper) pairs of a dismissal
parse_dismissal_text(dismissal_text) ==
    LET cleaned == [ i \in 1..Len(dismissal_text.fielders) |->
                        clean_player_name(dismissal_text.fielders[i]) ]
        Named(f) == f.name # ""
    IN  IF dismissal_text.kind \in {"c & b", "st", "c"} /\ Len(cleaned) > 0
        THEN <<cleaned[1]>>
        ELSE IF dismissal_text.kind = "run out"
        THEN SelectSeq(cleaned, Named)
        ELSE <<>>

\* Division rounded to the nearest integer, ties to the even one: what
\* float(f"{n / d:.1f}") or :.2f keeps of a quotient, for d > 0.
RoundDiv(n, d) ==
    LET q == n \div d
        r == n % d
    IN  IF 2 * r < d THEN q
        ELSE IF 2 * r > d THEN q + 1
        ELSE IF q % 2 = 0 THEN q ELSE q + 1

\* Mutant of Differential: without a team average the rate itself is the differential.
DifferentialWithoutAverage(rate, avg) ==
    IF avg > 0 THEN RoundDiv((rate - avg) * 1000, avg) ELSE rate

\* ((rate - avg) / avg * 100) if avg > 0 else 0.0, to one decimal
Differential(rate, avg) == IF avg > 0 THEN RoundDiv((rate - avg) * 1000, avg) ELSE 0

\* team_names, as found in the match header
team_names == <<"Mumbai Indians", "Chennai Super Kings">>

\* Mutant of BowlingTeamOf: the batting team fields.
BowlingTeamOfItself(batting_team) == batting_team

\* the first team of team_names that is not the batting team
BowlingTeamOf(batting_team) ==
    LET Other(team) == team # batting_team
        others == SelectSeq(team_names, Other)
    IN  IF Len(others) > 0 THEN others[1] ELSE NoName

CurrentInnings == document.innings[innings_num + 1]

\* dict[key] = value
Put(map, key, value) == [ k \in DOMAIN map \cup {key} |-> IF k = key THEN value ELSE map[k] ]

\* Mutant of WithPlayer: the record is initialised again on every row.
WithPlayerAfresh(player_stats, player_name) ==
    Put(player_stats, player_name, create_default_player_stats)

\* if player_name not in player_stats: player_stats[player_name] = create_default_player_stats()
WithPlayer(player_stats, player_name) ==
    IF player_name \in DOMAIN player_stats
    THEN player_stats
    ELSE Put(player_stats, player_name, create_default_player_stats)

\* for innings_num, innings in enumerate(innings_divs): the team header and
\* the run rate of the innings. Storing the averages of a batting team that is
\* not a key of scorecard_data raises KeyError outside every inner try: the
\* outer handler returns {"error": "Failed to process scorecard"}, and
\* update_sheet_for_match neither writes nor scores anything.
StartInnings ==
    /\ pc = "innings"
    /\ LET batting_team == CurrentInnings.team_header
           bowling_team == BowlingTeamOf(batting_team)
           run_rate == CurrentInnings.run_rate
       IN  IF run_rate # 0 /\ batting_team \notin DOMAIN scorecard_data
           THEN /\ pc' = "error"
                /\ scorecard_data' = scorecard_data
           ELSE /\ pc' = "batting"
                /\ scorecard_data' =
                       IF run_rate # 0
                       THEN [ scorecard_data EXCEPT
                                ![batting_team].average_strike_rate =
                                    RoundDiv(run_rate * 100, 6),
                                ![bowling_team].average_economy = run_rate ]
                       ELSE scorecard_data
    /\ row_num' = 0
    /\ UNCHANGED <<lookup, lookup_results>>
    /\ UNCHANGED <<blob, current_time, response>>
    /\ UNCHANGED <<scoring_rules, player_roles, unknown_role_players, returned, run_count,
                   raised, all_players, document, dismissal_records, innings_num>>

\* did_not_bat = "Yes" if runs_scored == 0 and dismissal_info == "not out" else "No"
DidNotBat(runs_scored, dismissal_info) ==
    IF runs_scored = 0 /\ dismissal_info.kind = "not out" THEN "Yes" ELSE "No"

\* One row of the batting table.
ProcessBattingRow ==
    /\ pc = "batting"
    /\ row_num < Len(CurrentInnings.batting_rows)
    /\ LET row == CurrentInnings.batting_rows[row_num + 1]
           batting_team == CurrentInnings.team_header
           bowling_team == BowlingTeamOf(batting_team)
           player_name == clean_player_name(row.link).name
           player_stats == WithPlayer(scorecard_data[batting_team].player_stats, player_name)
           dismissal_info == row.dismissal_info
           strike_rate == IF row.strike_rate_dash THEN 0 ELSE row.strike_rate
           avg_sr == scorecard_data[batting_team].average_strike_rate
           sr_differential == Differential(strike_rate, avg_sr)
           runs_scored == row.runs
           did_not_bat == DidNotBat(runs_scored, dismissal_info)
           updated == [ player_stats[player_name] EXCEPT
                          !.runs_scored = runs_scored,
                          !.balls_faced = row.balls,
                          !.fours = row.fours,
                          !.sixes = row.sixes,
                          !.strike_rate = strike_rate,
                          !.sr_differential = sr_differential,
                          !.did_not_bat = did_not_bat ]
       IN  IF batting_team \notin DOMAIN scorecard_data
           THEN \* scorecard_data[batting_team] raises KeyError: the row is skipped
                UNCHANGED <<dismissal_records, scorecard_data>>
           ELSE
           /\ dismissal_records' =
                  IF bowling_team # NoName /\ dismissal_info.kind \notin {"", "not out"}
                  THEN Append(dismissal_records,
                              [ batsman |-> player_name, dismissal_text |-> dismissal_info,
                                batting_team |-> batting_team, bowling_team |-> bowling_team ])
                  ELSE dismissal_records
           /\ scorecard_data' =
                  [ scorecard_data EXCEPT ![batting_team].player_stats =
                      IF row.unparsable # {}
                      THEN player_stats
                      ELSE Put(player_stats, player_name, updated) ]
    /\ row_num' = row_num + 1
    /\ UNCHANGED <<lookup, lookup_results>>
    /\ UNCHANGED <<blob, current_time, response>>
    /\ UNCHANGED <<scoring_rules, player_roles, unknown_role_players, returned, run_count,
                   raised, pc, all_players, document, innings_num>>

\* The did-not-bat list under the batting table.
ProcessDidNotBat ==
    /\ pc = "batting"
    /\ row_num = Len(CurrentInnings.batting_rows)
    /\ LET batting_team == CurrentInnings.team_header
           dnb_players == CurrentInnings.dnb_players
           names == { clean_player_name(dnb_players[i]).name : i \in 1..Len(dnb_players) }
           player_stats == scorecard_data[batting_team].player_stats
       IN  scorecard_data' =
               IF batting_team \notin DOMAIN scorecard_data
               THEN \* KeyError for every listed player: each is skipped
                    scorecard_data
               ELSE [ scorecard_data EXCEPT ![batting_team].player_stats =
                        [ p \in DOMAIN player_stats \cup names |->
                            IF p \in DOMAIN player_stats THEN player_stats[p]
                            ELSE create_default_player_stats ] ]
    /\ pc' = "bowling"
    /\ row_num' = 0
    /\ UNCHANGED <<lookup, lookup_results>>
    /\ UNCHANGED <<blob, current_time, response>>
    /\ UNCHANGED <<scoring_rules, player_roles, unknown_role_players, returned, run_count,
                   raised, all_players, document, dismissal_records, innings_num>>

\* One row of the bowling table.
ProcessBowlingRow ==
    /\ pc = "bowling"
    /\ row_num < Len(CurrentInnings.bowling_rows)
    /\ LET row == CurrentInnings.bowling_rows[row_num + 1]
           bowling_team == BowlingTeamOf(CurrentInnings.team_header)
           player_name == clean_player_name(row.link).name
           player_stats == WithPlayer(scorecard_data[bowling_team].player_stats, player_name)
           economy == row.economy
           avg_econ == scorecard_data[bowling_team].average_economy
           econ_differential == Differential(economy, avg_econ)
           bowling_stats == [ player_stats[player_name] EXCEPT
                                !.overs = row.overs,
                                !.maiden = row.maiden,
                                !.wickets = row.wickets,
                                !.dots = row.dots,
                                !.wides = row.wides,
                                !.no_balls = row.no_balls,
                                !.economy = economy,
                                !.economy_differential = econ_differential ]
       IN  scorecard_data' =
               [ scorecard_data EXCEPT ![bowling_team].player_stats =
                   IF row.unparsable # {}
                   THEN player_stats
                   ELSE Put(player_stats, player_name, bowling_stats) ]
    /\ row_num' = row_num + 1
    /\ UNCHANGED <<lookup, lookup_results>>
    /\ UNCHANGED <<blob, current_time, response>>
    /\ UNCHANGED <<scoring_rules, player_roles, unknown_role_players, returned, run_count,
                   raised, pc, all_players, document, dismissal_records, innings_num>>

\* The end of one pass of the innings loop.
NextInnings ==
    /\ pc = "bowling"
    /\ row_num = Len(CurrentInnings.bowling_rows)
    /\ innings_num' = innings_num + 1
    /\ pc' = IF innings_num + 1 < Len(document.innings) THEN "innings" ELSE "dismissals"
    /\ row_num' = 0
    /\ UNCHANGED <<lookup, lookup_results>>
    /\ UNCHANGED <<blob, current_time, response>>
    /\ UNCHANGED <<scorecard_data, scoring_rules, player_roles, unknown_role_players, returned,
                   run_count, raised, all_players, document, dismissal_records>>

\* Mutant of Credit: a stumping also counts as a catch of the keeper.
CreditStumpingAsCatch(stats, dismissal_text, fielders) ==
    IF dismissal_text.kind = "c & b" THEN [ stats EXCEPT !.catches = @ + 1 ]
    ELSE IF dismissal_text.kind = "st"
         THEN [ stats EXCEPT !.stumping = @ + 1, !.catches = @ + 1 ]
    ELSE IF dismissal_text.kind = "c" THEN [ stats EXCEPT !.catches = @ + 1 ]
    ELSE IF dismissal_text.kind = "run out"
         THEN [ stats EXCEPT !.run_outs = @ + (6 \div Len(fielders)) ]
    ELSE stats

\* Mutant of Credit: every fielder of a run-out gets the whole run-out.
CreditWholeRunOut(stats, dismissal_text, fielders) ==
    IF dismissal_text.kind = "c & b" THEN [ stats EXCEPT !.catches = @ + 1 ]
    ELSE IF dismissal_text.kind = "st" THEN [ stats EXCEPT !.stumping = @ + 1 ]
    ELSE IF dismissal_text.kind = "c" THEN [ stats EXCEPT !.catches = @ + 1 ]
    ELSE IF dismissal_text.kind = "run out" THEN [ stats EXCEPT !.run_outs = @ + 6 ]
    ELSE stats

\* The credit one fielder of a dismissal gets.
Credit(stats, dismissal_text, fielders) ==
    IF dismissal_text.kind = "c & b" THEN [ stats EXCEPT !.catches = @ + 1 ]
    ELSE IF dismissal_text.kind = "st" THEN [ stats EXCEPT !.stumping = @ + 1 ]
    ELSE IF dismissal_text.kind = "c" THEN [ stats EXCEPT !.catches = @ + 1 ]
    ELSE IF dismissal_text.kind = "run out"
         THEN [ stats EXCEPT !.run_outs = @ + (6 \div Len(fielders)) ]
    ELSE stats

\* for fielder_name, is_wicketkeeper in fielders: ..., from the i-th fielder on
RECURSIVE CreditFielders(_, _, _, _, _)
CreditFielders(player_stats, record, fielders, bowling_team_players, i) ==
    IF i > Len(fielders) THEN player_stats
    ELSE LET found == find_matching_player(fielders[i].name, record.bowling_team,
                                           bowling_team_players, player_stats,
                                           fielders[i].is_wicketkeeper)
             matched_name == found.matched_name
             inserted ==
                 IF matched_name \in DOMAIN player_stats
                 THEN player_stats
                 ELSE Put(player_stats, matched_name,
                          [ create_default_player_stats EXCEPT !.is_sub = TRUE ])
         IN  IF matched_name # NoName
             THEN CreditFielders(
                      Put(inserted, matched_name,
                          Credit(inserted[matched_name], record.dismissal_text, fielders)),
                      record, fielders, bowling_team_players, i + 1)
             ELSE CreditFielders(player_stats, record, fielders, bowling_team_players, i + 1)

\* One dismissal record of the dismissal pass.
ProcessDismissal ==
    /\ pc = "dismissals"
    /\ row_num < Len(dismissal_records)
    /\ LET record == dismissal_records[row_num + 1]
           fielders == parse_dismissal_text(record.dismissal_text)
           player_stats == scorecard_data[record.bowling_team].player_stats
           bowling_team_players == DOMAIN player_stats
       IN  scorecard_data' =
               [ scorecard_data EXCEPT ![record.bowling_team].player_stats =
                   CreditFielders(player_stats, record, fielders, bowling_team_players, 1) ]
    /\ row_num' = row_num + 1
    /\ UNCHANGED <<lookup, lookup_results>>
    /\ UNCHANGED <<blob, current_time, response>>
    /\ UNCHANGED <<scoring_rules, player_roles, unknown_role_players, returned, run_count,
                   raised, pc, all_players, document, dismissal_records, innings_num>>

\* Player of the Match: the first team that has the name.
ProcessPotm ==
    /\ pc = "dismissals"
    /\ row_num = Len(dismissal_records)
    /\ LET potm_name == clean_player_name(document.potm_link).name
           HasPlayer(team) == potm_name \in DOMAIN scorecard_data[team].player_stats
           teams == SelectSeq(team_names, HasPlayer)
       IN  scorecard_data' =
               IF document.potm_link.text # NoName /\ Len(teams) > 0
               THEN [ scorecard_data EXCEPT ![teams[1]].player_stats[potm_name].potm = "Yes" ]
               ELSE scorecard_data
    /\ pc' = "format"
    /\ UNCHANGED <<lookup, lookup_results>>
    /\ UNCHANGED <<blob, current_time, response>>
    /\ UNCHANGED <<scoring_rules, player_roles, unknown_role_players, returned, run_count,
                   raised, all_players, document, dismissal_records, innings_num, row_num>>

\* float(f"{x:.2f}") / float(f"{x:.1f}") of a value held in hundredths / tenths
Format(x, unit) == RoundDiv(x * unit, unit)

\* Format floating point values, return scorecard_data; update_sheet_for_match
\* dumps it to the scorecard file.
FormatAndSave ==
    /\ pc = "format"
    /\ scorecard_data' =
           [ t \in DOMAIN scorecard_data |->
               [ average_economy |-> Format(scorecard_data[t].average_economy, 100),
                 average_strike_rate |-> Format(scorecard_data[t].average_strike_rate, 100),
                 player_stats |->
                     [ p \in DOMAIN scorecard_data[t].player_stats |->
                         LET stats == scorecard_data[t].player_stats[p]
                         IN  [ stats EXCEPT
                                 !.strike_rate = Format(stats.strike_rate, 100),
                                 !.sr_differential = Format(stats.sr_differential, 10),
                                 !.economy = Format(stats.economy, 100),
                                 !.economy_differential =
                                     Format(stats.economy_differential, 10) ] ] ] ]
    /\ pc' = "saved"
    /\ UNCHANGED <<lookup, lookup_results>>
    /\ UNCHANGED <<blob, current_time, response>>
    /\ UNCHANGED <<scoring_rules, player_roles, unknown_role_players, returned, run_count,
                   raised, all_players, document, dismissal_records, innings_num, row_num>>

-----------------------------------------------------------------------------
(* Scorecards handed to the scoring engine.                                *)

\* players.json for a roster of the players p1, p2 of one team
RosterEntries(roles) ==
    LET InRoster(n) == n \in DOMAIN roles
        names == SelectSeq(<<"p1", "p2">>, InRoster)
    IN  [ i \in 1..Len(names) |->
            [ name |-> names[i], team |-> "Team A", role |-> roles[names[i]] ] ]

\* No direct call of find_matching_player.
\* null, as parse_datetime returns None for it
NoTime == -1

\* What update_scores has returned when it was never invoked.
NoResponse ==
    [ message |-> "none", processed_matches |-> {}, matches_updated |-> FALSE,
      update_calls |-> {}, loaded |-> FALSE, uploaded |-> FALSE ]

\* A bucket without a state file.
NoBlob == [ readable |-> FALSE, matches |-> <<>> ]

\* The Cloud Function is not deployed: no state file, no invocation.
NoInvocation ==
    /\ blob = NoBlob
    /\ current_time = 0
    /\ response = NoResponse

NoLookup ==
    [ name |-> NoName, team_name |-> NoName, existing_players |-> {}, is_wicketkeeper |-> FALSE ]

\* A page without innings.
NoPage == [ innings |-> <<>>, potm_link |-> Link(NoName, {}) ]

\* The scorecard file is on disk; no scrape is under way.
NoScrape ==
    /\ all_players = RosterEntries(player_roles)
    /\ document = NoPage
    /\ dismissal_records = <<>>
    /\ innings_num = 0
    /\ row_num = 0
    /\ lookup = NoLookup
    /\ lookup_results = <<>>
    /\ NoInvocation

TeamRecord(player_stats) ==
    [ average_economy |-> 0, average_strike_rate |-> 0, player_stats |-> player_stats ]

\* A scorecard of one team with one player.
OnePlayerCard(stats) == [ t \in {"Team A"} |-> TeamRecord([ p \in {"p1"} |-> stats ]) ]

RunsValues == {0, 19, 20, 29, 30, 49, 52, 74, 75, 100, 149, 150}
BallsValues == {0, 9, 10, 11, 12, 14, 15, 30}
StrikeRateValues == {0, 6999, 7000, 8999, 9000, 14999, 15000, 17000, 19999,
                     20000, 25000, 29999, 30000}
SrDiffValues == {-1000, -700, -699, -600, -599, -500, -499, -400, -399, -300, -299,
                 -200, -199, -1, 0, 199, 200, 299, 300, 499, 500, 749, 750, 999,
                 1000, 1999, 2000, 3000}
OversValues == {0, 50, 100, 130, 200, 205, 210, 211, 230, 400}
EconomyValues == {0, 199, 200, 299, 300, 450, 550, 650, 799, 800, 1000, 1099, 1100,
                  1250, 1499, 1500, 1799, 1800, 2400}
EcoDiffValues == {-700, -699, -600, -500, -400, -350, -300, -200, -199, 0,
                  199, 200, 299, 300, 350, 399, 400, 500, 600, 699, 700}
WicketsValues == 0..7

\* Batting rows: runs, balls, strike rate and the did-not-bat flag.
BattingInputs ==
    { [ create_default_player_stats EXCEPT
          !.runs_scored = r, !.balls_faced = b, !.strike_rate = sr, !.did_not_bat = dnb ] :
        r \in RunsValues, b \in BallsValues, sr \in StrikeRateValues, dnb \in {"Yes", "No"} }

\* Batting rows: the differential against the innings strike rate.
SrDiffInputs ==
    { [ create_default_player_stats EXCEPT
          !.runs_scored = 5, !.balls_faced = b, !.sr_differential = d, !.did_not_bat = "No" ] :
        b \in BallsValues, d \in SrDiffValues }

\* Bowling rows: overs and economy.
BowlingInputs ==
    { [ create_default_player_stats EXCEPT !.overs = o, !.economy = e ] :
        o \in OversValues, e \in EconomyValues }

\* Bowling rows: overs and the differential against the innings economy.
EcoDiffInputs ==
    { [ create_default_player_stats EXCEPT
          !.overs = o, !.economy = 650, !.economy_differential = d ] :
        o \in OversValues, d \in EcoDiffValues }

WicketInputs ==
    { [ create_default_player_stats EXCEPT !.overs = 400, !.economy = 900, !.wickets = w ] :
        w \in WicketsValues }

StatsInputs ==
    BattingInputs \cup SrDiffInputs \cup BowlingInputs \cup EcoDiffInputs \cup WicketInputs

\* The state before a scoring run: the scorecard file is on disk and the
\* configuration is loaded.
InitStats ==
    /\ scorecard_data \in { OnePlayerCard(st) : st \in StatsInputs }
    /\ scoring_rules \in RuleTables
    /\ player_roles \in [ {"p1"} -> Roles ]
    /\ unknown_role_players = {}
    /\ returned = [ t \in {"Team A"} |-> [ p \in {"p1"} |-> NoResult ] ]
    /\ run_count = 0
    /\ raised = FALSE
    /\ pc = "saved"
    /\ NoScrape

NextScore == CalculateScores

SpecStats == InitStats /\ [][NextScore]_vars

\* A scorecard of one team with two players.
TwoPlayerCard(st1, st2) ==
    [ t \in {"Team A"} |->
        TeamRecord([ p \in {"p1", "p2"} |-> IF p = "p1" THEN st1 ELSE st2 ]) ]

\* Two bowlers of one match: every overs/economy pair against a few others.
PairOversEconomy == { 650, 1600, 1900 }

InitBowlPair ==
    /\ scorecard_data \in
           { TwoPlayerCard(st1, [ create_default_player_stats EXCEPT !.overs = o, !.economy = e ]) :
               st1 \in BowlingInputs, o \in OversValues, e \in PairOversEconomy }
    /\ scoring_rules \in RuleTables
    /\ player_roles = [ p \in {"p1", "p2"} |-> IF p = "p1" THEN "Bowler" ELSE "Batter" ]
    /\ unknown_role_players = {}
    /\ returned = [ t \in {"Team A"} |-> [ p \in {"p1", "p2"} |-> NoResult ] ]
    /\ run_count = 0
    /\ raised = FALSE
    /\ pc = "saved"
    /\ NoScrape

SpecBowlPair == InitBowlPair /\ [][NextScore]_vars

\* Whole records as a scorecard file may hold them: what the player did ...
BattingProfiles ==
    { create_default_player_stats,
      [ create_default_player_stats EXCEPT
          !.runs_scored = 52, !.balls_faced = 30, !.fours = 4, !.sixes = 3,
          !.strike_rate = 17333, !.sr_differential = 350, !.did_not_bat = "No" ],
      [ create_default_player_stats EXCEPT
          !.balls_faced = 16, !.sr_differential = -1000, !.did_not_bat = "No" ] }

WithBowling(st) ==
    { st,
      [ st EXCEPT !.overs = 230, !.economy = 650, !.economy_differential = -350,
                  !.wickets = 3, !.dots = 8, !.maiden = 1, !.wides = 2, !.no_balls = 1 ] }

WithFielding(st) ==
    { st,
      [ st EXCEPT !.catches = 1, !.stumping = 1 ],
      [ st EXCEPT !.run_outs = 2 ] }

WithPotm(st) == { st, [ st EXCEPT !.potm = "Yes" ] }

\* ... what is wrong with the record (a negative or non-numeric value, a key
\* that is not there) ...
WithDefect(st) ==
    { st,
      [ st EXCEPT !.non_numeric = {"runs_scored"} ],
      [ st EXCEPT !.non_numeric = {"strike_rate"} ],
      [ st EXCEPT !.non_numeric = {"wides"} ],
      [ st EXCEPT !.wickets = -1 ],
      [ st EXCEPT !.catches = -1 ],
      [ st EXCEPT !.absent = {"potm"} ] }

\* ... and the points fields an earlier run (under another roster or rule
\* table) may have left in it.
WithStalePoints(st) ==
    { st,
      [ st EXCEPT !.runs_points = 5200, !.batting_points = 5200, !.economy_points = -300,
                  !.bowling_points = -300, !.fielding_points = 33, !.potm_points = 2500,
                  !.total_points = 7433 ] }

RecordInputs ==
    UNION { WithStalePoints(f) : f \in
        UNION { WithDefect(e) : e \in
            UNION { WithPotm(d) : d \in
                UNION { WithFielding(c) : c \in
                    UNION { WithBowling(b) : b \in BattingProfiles } } } } }

\* The other player of the scorecard.
OtherInput ==
    [ create_default_player_stats EXCEPT
        !.runs_scored = 31, !.balls_faced = 20, !.fours = 5, !.strike_rate = 15500,
        !.did_not_bat = "No", !.overs = 400, !.economy = 725, !.wickets = 6,
        !.dots = 11, !.run_outs = 3 ]

OtherInputs ==
    { OtherInput,
      [ create_default_player_stats EXCEPT
          !.runs_scored = 7, !.balls_faced = 9, !.did_not_bat = "No", !.absent = {"potm"} ] }

\* The rosters: each of the two players has a role or is not in players.json.
Rosters ==
    UNION { [ names -> Roles ] : names \in SUBSET {"p1", "p2"} }

InitFile ==
    /\ scorecard_data \in { TwoPlayerCard(st1, st2) : st1 \in RecordInputs, st2 \in OtherInputs }
    /\ scoring_rules \in RuleTables
    /\ player_roles \in { r \in Rosters : "p2" \in DOMAIN r => r["p2"] = "Bowler" }
    /\ unknown_role_players = {}
    /\ returned = [ t \in {"Team A"} |-> [ p \in {"p1", "p2"} |-> NoResult ] ]
    /\ run_count = 0
    /\ raised = FALSE
    /\ pc = "saved"
    /\ NoScrape

\* Well-formed records of a scorecard file.
SoundInputs ==
    UNION { WithPotm(d) : d \in
        UNION { WithFielding(c) : c \in
            UNION { WithBowling(b) : b \in BattingProfiles } } }

\* A scorecard file of sound records to score under a rule table that may
\* lack an entry.
InitRules ==
    /\ scorecard_data \in
           { TwoPlayerCard(st1, st2) : st1 \in SoundInputs, st2 \in WithPotm(OtherInput) }
    /\ scoring_rules \in RuleTables \cup IncompleteRuleTables
    /\ player_roles \in { r \in [ {"p1", "p2"} -> Roles ] : r["p2"] = "Bowler" }
    /\ unknown_role_players = {}
    /\ returned = [ t \in {"Team A"} |-> [ p \in {"p1", "p2"} |-> NoResult ] ]
    /\ run_count = 0
    /\ raised = FALSE
    /\ pc = "saved"
    /\ NoScrape

SpecRules == InitRules /\ [][NextScore]_vars

-----------------------------------------------------------------------------
(* Scorecard pages handed to the scraper.                                  *)

\* players.json
Roster ==
    << [ name |-> "Rohit Sharma", team |-> "Mumbai Indians", role |-> "Batter" ],
       [ name |-> "Ishan Kishan", team |-> "Mumbai Indians", role |-> "Keeper" ],
       [ name |-> "Jasprit Bumrah", team |-> "Mumbai Indians", role |-> "Bowler" ],
       [ name |-> "Ruturaj Gaikwad", team |-> "Chennai Superkings", role |-> "Batter" ],
       [ name |-> "MS Dhoni", team |-> "Chennai Superkings", role |-> "Keeper" ],
       [ name |-> "Deepak Chahar", team |-> "Chennai Superkings", role |-> "Bowler" ],
       [ name |-> "Rahul Chahar", team |-> "Chennai Superkings", role |-> "Bowler" ],
       [ name |-> "Mitchell Santner", team |-> "Chennai Superkings", role |-> "Bowler" ] >>

\* {player['name']: player['role'] for player in players_data['players']}
PlayerRolesOf(players) ==
    [ n \in { players[i].name : i \in 1..Len(players) } |->
        LET Named(pl) == pl.name = n
            entries == SelectSeq(players, Named)
        IN  entries[Len(entries)].role ]

BattingRow(link, dismissal_info, score, unparsable) ==
    [ link |-> link, dismissal_info |-> dismissal_info,
      runs |-> score.runs, balls |-> score.balls, fours |-> score.fours,
      sixes |-> score.sixes, strike_rate |-> score.strike_rate,
      strike_rate_dash |-> score.strike_rate_dash, unparsable |-> unparsable ]

Score(runs, balls, fours, sixes, strike_rate, strike_rate_dash) ==
    [ runs |-> runs, balls |-> balls, fours |-> fours, sixes |-> sixes,
      strike_rate |-> strike_rate, strike_rate_dash |-> strike_rate_dash ]

BowlingRow(link, overs, maiden, wickets, economy, dots, wides, no_balls, unparsable) ==
    [ link |-> link, overs |-> overs, maiden |-> maiden, wickets |-> wickets,
      economy |-> economy, dots |-> dots, wides |-> wides, no_balls |-> no_balls,
      unparsable |-> unparsable ]

\* 0 without facing a ball (strike rate "-"), 0 off 3 balls, 34 off 20
Scores ==
    { Score(0, 0, 0, 0, 0, TRUE), Score(0, 3, 0, 0, 0, FALSE),
      Score(34, 20, 4, 1, 17000, FALSE) }

\* Dismissal cells of a Mumbai batter (Chennai fields).
MumbaiDismissals ==
    { DismissalText("not out", <<>>, FALSE),
      DismissalText("", <<>>, FALSE),
      DismissalText("b", <<>>, FALSE),
      DismissalText("c", << Link("Dhoni", {"dagger"}) >>, FALSE),
      DismissalText("c", << Link("Mitchell Santner", {}) >>, TRUE),
      DismissalText("c", << Link("Chahar", {}) >>, FALSE),
      DismissalText("c", << Link("D Chahar", {}) >>, FALSE),
      \* a cell naming a player of the batting side
      DismissalText("c", << Link("Kishan", {"dagger"}) >>, FALSE),
      DismissalText("st", << Link("Dhoni", {"dagger"}) >>, FALSE),
      DismissalText("c & b", << Link("Chahar", {}) >>, FALSE),
      DismissalText("run out", << Link("Ruturaj Gaikwad", {}), Link("Dhoni", {"dagger"}) >>, FALSE),
      DismissalText("run out", << Link("Jadeja", {}) >>, TRUE),
      DismissalText("run out", << Link("Ruturaj Gaikwad", {}), Link("Dhoni", {"dagger"}),
                                  Link("D Chahar", {}) >>, FALSE),
      DismissalText("run out", << Link("Dhoni", {"dagger"}), Link("Jadeja", {}) >>, FALSE),
      DismissalText("run out", <<>>, FALSE) }

\* The row of Chennai's opener (Mumbai fields).
ChennaiOpenerRows ==
    { BattingRow(Link("Ruturaj Gaikwad", {}), DismissalText("not out", <<>>, FALSE),
                 Score(0, 0, 0, 0, 0, TRUE), {}),
      BattingRow(Link("Ruturaj Gaikwad", {}),
                 DismissalText("run out", << Link("Sharma", {}), Link("Kishan", {"dagger"}) >>, FALSE),
                 Score(0, 1, 0, 0, 0, FALSE), {}),
      BattingRow(Link("Ruturaj Gaikwad", {}),
                 DismissalText("c", << Link("Kishan", {"dagger"}) >>, FALSE),
                 Score(61, 40, 6, 2, 15250, FALSE), {}),
      \* a bowler of the first innings opens the batting
      BattingRow(Link("Deepak Chahar", {}), DismissalText("b", <<>>, FALSE),
                 Score(7, 4, 1, 0, 17500, FALSE), {}) }

\* Who bowls Mumbai's first over: a bowler, or a batter of the first innings.
MumbaiOpeningBowlers == { "Jasprit Bumrah", "Rohit Sharma" }

\* Innings run rates; 0: no "(RR: x)" span, an unparsable one, or 0.0
RunRates == { 0, 845 }

\* The label over Mumbai's innings: the name of the match header, or a label
\* that is not among team_names.
InningsLabels == { "Mumbai Indians", "MI" }

\* Mumbai bat first: the captain's row varies, a batter who is not in
\* players.json is caught for 0, one player is in the did-not-bat list.
MumbaiInnings ==
    { [ team_header |-> header,
        run_rate |-> rr,
        batting_rows |->
            << BattingRow(Link("Rohit Sharma", {"(c)"}), d, sc, u),
               BattingRow(Link("Tim David", {}),
                          DismissalText("c", << Link("Dhoni", {"dagger"}) >>, FALSE),
                          Score(0, 2, 0, 0, 0, FALSE), {}) >>,
        dnb_players |-> << Link("Jasprit Bumrah", {}) >>,
        bowling_rows |->
            << BowlingRow(Link("Deepak Chahar", {}), 400, 0, 2, 850, 9, 1, 0, {}) >> ] :
        header \in InningsLabels, rr \in RunRates, d \in MumbaiDismissals, sc \in Scores,
        u \in { {}, {"fours"} } }

ChennaiInnings ==
    { [ team_header |-> "Chennai Super Kings",
        run_rate |-> 910,
        batting_rows |->
            << opener,
               BattingRow(Link("MS Dhoni", {"(c)", "dagger"}), DismissalText("not out", <<>>, FALSE),
                          Score(12, 5, 0, 1, 24000, FALSE), {}) >>,
        dnb_players |-> << Link("Deepak Chahar", {}) >>,
        bowling_rows |->
            << BowlingRow(Link(bowler, {}), 230, 0, 1, 650, 8, 0, 0, {}),
               BowlingRow(Link("Ishan Kishan", {}), 100, 0, 0, 1900, 1, 2, 1, {"dots"}) >> ] :
        opener \in ChennaiOpenerRows, bowler \in MumbaiOpeningBowlers }

Pages ==
    { [ innings |-> << first, second >>, potm_link |-> potm ] :
        first \in MumbaiInnings, second \in ChennaiInnings,
        potm \in { Link(NoName, {}), Link("Rohit Sharma", {}) } }

\* scrape_scorecard has found the teams and is about to read the innings.
InitPage ==
    /\ document \in Pages
    /\ scorecard_data =
           [ t \in { team_names[i] : i \in 1..Len(team_names) } |-> TeamRecord(<<>>) ]
    /\ scoring_rules \in RuleTables
    /\ all_players = Roster
    /\ player_roles = PlayerRolesOf(all_players)
    /\ unknown_role_players = {}
    /\ returned = [ t \in { team_names[i] : i \in 1..Len(team_names) } |-> <<>> ]
    /\ run_count = 0
    /\ raised = FALSE
    /\ pc = "innings"
    /\ dismissal_records = <<>>
    /\ innings_num = 0
    /\ row_num = 0
    /\ lookup = NoLookup
    /\ lookup_results = <<>>
    /\ NoInvocation

\* A scorecard file to score, or a page to scrape and then score.
Init == InitFile \/ InitPage

Next ==
    \/ StartInnings
    \/ ProcessBattingRow
    \/ ProcessDidNotBat
    \/ ProcessBowlingRow
    \/ NextInnings
    \/ ProcessDismissal
    \/ ProcessPotm
    \/ FormatAndSave
    \/ CalculateScores

Spec == Init /\ [][Next]_vars

-----------------------------------------------------------------------------
(* Fielder fragments handed to find_matching_player.                       *)

\* The bowling team as the page header names it; players.json spells it differently.
MatchTeam == "Royal Challengers Bengaluru"

\* Entries players.json may hold.
RosterPool ==
    { [ name |-> "Jitesh Sharma", team |-> "Royal Challengers Bangalore", role |-> r ] :
        r \in {"Keeper", "Batter"} }
    \cup { [ name |-> "Suyash Sharma", team |-> "Royal Challengers Bangalore", role |-> r ] :
             r \in {"Bowler", "Keeper"} }
    \cup { [ name |-> "Virat Kohli", team |-> "Royal Challengers Bangalore", role |-> "Batter" ],
           [ name |-> "Virat Singh", team |-> "Royal Challengers Bangalore", role |-> "Batter" ] }
    \cup { [ name |-> "Jitesh Sharma", team |-> "Mumbai Indians", role |-> r ] :
             r \in {"Keeper", "Batter"} }

SameListing(a, b) == a.name = b.name /\ a.team = b.team

\* players.json files of three entries, no player listed twice for one team.
MatchRosters ==
    { <<a, b, c>> : a \in RosterPool, b \in RosterPool, c \in RosterPool } \cap
    { r \in [ 1..3 -> RosterPool ] :
        ~SameListing(r[1], r[2]) /\ ~SameListing(r[1], r[3]) /\ ~SameListing(r[2], r[3]) }

\* Fielder fragments of dismissal texts.
Fragments == {"Sharma", "J Sharma", "Jitesh Sharma", "Virat K", "Kohli", "Jadeja"}

\* The dismissal pass is about to read the one dismissal record of a page whose
\* fielder is the fragment; the same fragment is also resolved by direct calls.
InitMatch ==
    /\ all_players \in MatchRosters
    /\ player_roles = PlayerRolesOf(all_players)
    /\ scoring_rules = 1
    /\ \E existing \in SUBSET {"Jitesh Sharma", "Suyash Sharma", "Virat Kohli"} :
       \E fragment \in Fragments :
       \E keeper_mark \in BOOLEAN :
       \E kind \in {"c", "st", "run out"} :
           /\ scorecard_data =
                  [ t \in {MatchTeam} |->
                      TeamRecord([ p \in existing |-> create_default_player_stats ]) ]
           /\ dismissal_records =
                  << [ bowling_team |-> MatchTeam,
                       dismissal_text |->
                           DismissalText(kind,
                                         << Link(fragment,
                                                 IF keeper_mark THEN {"dagger"} ELSE {}) >>,
                                         FALSE) ] >>
           /\ lookup = [ name |-> fragment, team_name |-> MatchTeam,
                         existing_players |-> existing, is_wicketkeeper |-> keeper_mark ]
    /\ lookup_results = <<>>
    /\ NoInvocation
    /\ document = NoPage
    /\ unknown_role_players = {}
    /\ returned = [ t \in {MatchTeam} |-> <<>> ]
    /\ run_count = 0
    /\ raised = FALSE
    /\ pc = "dismissals"
    /\ innings_num = 0
    /\ row_num = 0

NextMatch ==
    \/ Lookup
    \/ ProcessDismissal

SpecMatch == InitMatch /\ [][NextMatch]_vars

\* Dismissal cells of Mumbai batters, to be read in any order.
OrderCells ==
    { DismissalText("c", << Link("Chahar", {}) >>, FALSE),
      DismissalText("c", << Link("Rahul Chahar", {}) >>, TRUE),
      DismissalText("c", << Link("D Chahar", {}) >>, FALSE),
      DismissalText("st", << Link("Dhoni", {"dagger"}) >>, FALSE),
      DismissalText("run out", << Link("Chahar", {}), Link("Dhoni", {"dagger"}) >>, FALSE) }

\* The Mumbai batters dismissed, in batting order.
OrderBatsmen == << "Rohit Sharma", "Tim David", "Jasprit Bumrah" >>

\* Lengths of the list of dismissal records.
OrderLengths == 2..3

\* The innings loop is over: Chennai's map holds the players its tables
\* named, and the dismissal pass is about to read the records of Mumbai's
\* innings.
InitOrder ==
    /\ all_players = Roster
    /\ player_roles = PlayerRolesOf(all_players)
    /\ scoring_rules = 1
    /\ \E existing \in SUBSET {"Deepak Chahar", "MS Dhoni"} :
           scorecard_data =
               [ t \in { team_names[i] : i \in 1..Len(team_names) } |->
                   TeamRecord(IF t = "Chennai Super Kings"
                              THEN [ p \in existing |-> create_default_player_stats ]
                              ELSE <<>>) ]
    /\ \E n \in OrderLengths : \E cells \in [ 1..n -> OrderCells ] :
           dismissal_records =
               [ i \in 1..n |->
                   [ batsman |-> OrderBatsmen[i], dismissal_text |-> cells[i],
                     batting_team |-> "Mumbai Indians",
                     bowling_team |-> "Chennai Super Kings" ] ]
    /\ lookup = NoLookup
    /\ lookup_results = <<>>
    /\ NoInvocation
    /\ document = NoPage
    /\ unknown_role_players = {}
    /\ returned = [ t \in { team_names[i] : i \in 1..Len(team_names) } |-> <<>> ]
    /\ run_count = 0
    /\ raised = FALSE
    /\ pc = "dismissals"
    /\ innings_num = 0
    /\ row_num = 0

NextOrder ==
    \/ ProcessDismissal
    \/ ProcessPotm

SpecOrder == InitOrder /\ [][NextOrder]_vars

-----------------------------------------------------------------------------
(* The Cloud Function: update_scores and the state file.                   *)

\* if not (8 <= current_time.hour < 20)
OpeningHour == 8

ClosingHour == 20

\* get_update_frequency: minutes between two updates of a match in progress
UpdateFrequency == 14

\* get_update_frequency: hours after which a match should be completed
MatchHours == 5

\* get_update_frequency returns None
NoFrequency == 0

Hour(time) == (time \div 60) % 24

\* parse_datetime: the instant a string denotes, in minutes, with the kind
\* of datetime it parses to: "aware" (with a UTC offset), "naive" (without
\* one) or "unparsable" (None).
parse_datetime(datetime_str) == datetime_str

get_update_frequency(match_start_time, now) ==
    IF now - match_start_time <= MatchHours * 60 THEN UpdateFrequency ELSE NoFrequency

Decision(should_update, frequency, new_status) ==
    [ should_update |-> should_update, frequency |-> frequency, new_status |-> new_status ]

\* Mutant of should_process_match: a match that is not due yet is reported
\* as not started.
should_process_match_waiting(match, now) ==
    LET start_time == parse_datetime(match.start_time)
        frequency == get_update_frequency(start_time.at, now)
        last_update == match.last_update
    IN  IF start_time.form = "unparsable" THEN Decision(FALSE, NoFrequency, match.status)
        ELSE IF match.status = "completed" THEN Decision(FALSE, NoFrequency, "completed")
        ELSE IF start_time.form = "naive" THEN Decision(FALSE, NoFrequency, match.status)
        ELSE IF now < start_time.at THEN Decision(FALSE, NoFrequency, "not_started")
        ELSE IF frequency = NoFrequency THEN Decision(FALSE, NoFrequency, "completed")
        ELSE IF last_update = NoTime \/ now - last_update >= frequency
             THEN Decision(TRUE, frequency, "in_progress")
        ELSE Decision(FALSE, frequency, "not_started")

\* should_process_match: (should_update, frequency, new_status). Comparing
\* the aware clock with a naive start time raises TypeError, which the
\* handler of the function turns into (False, None, status).
should_process_match(match, now) ==
    LET start_time == parse_datetime(match.start_time)
        frequency == get_update_frequency(start_time.at, now)
        last_update == match.last_update
    IN  IF start_time.form = "unparsable" THEN Decision(FALSE, NoFrequency, match.status)
        ELSE IF match.status = "completed" THEN Decision(FALSE, NoFrequency, "completed")
        ELSE IF start_time.form = "naive" THEN Decision(FALSE, NoFrequency, match.status)
        ELSE IF now < start_time.at THEN Decision(FALSE, NoFrequency, "not_started")
        ELSE IF frequency = NoFrequency THEN Decision(FALSE, NoFrequency, "completed")
        ELSE IF last_update = NoTime \/ now - last_update >= frequency
             THEN Decision(TRUE, frequency, "in_progress")
        ELSE Decision(FALSE, frequency, "in_progress")

\* sheet_updater.should_update_match: (should_update, new_status)
should_update_match(match_data, now) ==
    IF match_data.status = "not_started" /\ now >= match_data.start_time.at
    THEN [ should_update |-> TRUE, new_status |-> "in_progress" ]
    ELSE IF match_data.status = "in_progress"
    THEN [ should_update |-> TRUE, new_status |-> "in_progress" ]
    ELSE [ should_update |-> FALSE, new_status |-> match_data.status ]

\* sheet_updater.update_match_status
update_match_status(match_data, new_status, now) ==
    [ match_data EXCEPT !.status = new_status, !.last_update = now ]

\* What can happen in sheet_updater.main: the sheet is updated, the scrape
\* or the update fails (update_sheet_for_match returns False), or an
\* exception leaves main (the Sheets service, the configuration, a rate limit).
UpdateOutcomes == { "updated", "failed", "raises" }

\* sheet_updater.main(match_data): the match it returns (<<>> for None), or
\* that it raised.
update_main(match_data, now, outcome) ==
    LET decided == should_update_match(match_data, now)
    IN  IF ~decided.should_update THEN [ raised |-> FALSE, value |-> << match_data >> ]
        ELSE IF outcome = "raises" THEN [ raised |-> TRUE, value |-> <<>> ]
        ELSE IF outcome = "updated"
             THEN [ raised |-> FALSE,
                    value |-> << update_match_status(match_data, decided.new_status, now) >> ]
        ELSE [ raised |-> FALSE, value |-> <<>> ]

\* Mutant of UpdateMatch: last_update is written before update_main is called.
UpdateMatchStampedFirst(match, now, outcome) ==
    LET decision == should_process_match(match, now)
        with_status == [ match EXCEPT !.status = decision.new_status ]
        updated_match == update_main(with_status, now, outcome)
        succeeded == decision.should_update /\ ~updated_match.raised
                     /\ updated_match.value # <<>>
    IN  [ match |-> IF decision.should_update
                    THEN [ with_status EXCEPT !.last_update = now ]
                    ELSE with_status,
          matches_updated |-> match.status # decision.new_status \/ decision.should_update,
          processed |-> succeeded,
          called |-> decision.should_update ]

\* The body of "for match in data['matches']" for one match: the match as it
\* is left, whether matches_updated was set, whether the match was appended
\* to processed_matches, and whether update_main was called.
UpdateMatch(match, now, outcome) ==
    LET decision == should_process_match(match, now)
        with_status == [ match EXCEPT !.status = decision.new_status ]
        updated_match == update_main(with_status, now, outcome)
        succeeded == decision.should_update /\ ~updated_match.raised
                     /\ updated_match.value # <<>>
    IN  [ match |-> IF succeeded
                    THEN [ updated_match.value[1] EXCEPT !.last_update = now ]
                    ELSE with_status,
          matches_updated |-> match.status # decision.new_status \/ succeeded,
          processed |-> succeeded,
          called |-> decision.should_update ]

\* StateManager.verify_state_integrity: every match has the required fields
verify_state_integrity(state_data) ==
    \A i \in 1..Len(state_data.matches) : state_data.matches[i].complete

\* Mutant of load_state: a state that cannot be loaded is started afresh
\* from the season's fixture.
load_state_afresh(download_ok) ==
    IF download_ok /\ blob.readable
    THEN [ matches |-> blob.matches ]
    ELSE [ matches |-> << [ match_number |-> 1, start_time |-> [ form |-> "aware", at |-> 0 ],
                            status |-> "not_started", last_update |-> NoTime,
                            complete |-> TRUE ] >> ]

\* StateManager.load_state: the state file, or {"matches": []} when the
\* download or json.loads raises.
load_state(download_ok) ==
    IF download_ok /\ blob.readable
    THEN [ matches |-> blob.matches ]
    ELSE [ matches |-> <<>> ]

\* What an invocation returns, with what it did: the message, the lists of
\* the 'Success' body (empty in the other bodies), the matches update_main
\* was called for, whether load_state got the state file, and whether
\* save_state uploaded one.
Response(message, results, loaded, uploaded) ==
    LET reported == IF message = "Success" THEN results ELSE <<>>
    IN  [ message |-> message,
          processed_matches |->
              { reported[i].match.match_number :
                  i \in { j \in DOMAIN reported : reported[j].processed } },
          matches_updated |-> \E i \in DOMAIN reported : reported[i].matches_updated,
          update_calls |->
              { results[i].match.match_number :
                  i \in { j \in DOMAIN results : results[j].called } },
          loaded |-> loaded,
          uploaded |-> uploaded ]

\* One invocation of update_scores, given whether the download of the state
\* file works, what happens in update_main for each match, and whether the
\* upload works.
Invoke(download_ok, outcomes, upload_ok) ==
    LET data == load_state(download_ok)
        loaded == download_ok /\ blob.readable
        results == [ i \in 1..Len(data.matches) |->
                       UpdateMatch(data.matches[i], current_time, outcomes[i]) ]
        new_data == [ matches |-> [ i \in 1..Len(data.matches) |-> results[i].match ] ]
        matches_updated == \E i \in DOMAIN results : results[i].matches_updated
    IN  /\ Len(outcomes) = Len(data.matches)
        /\ IF ~(OpeningHour <= Hour(current_time) /\ Hour(current_time) < ClosingHour)
           THEN /\ response' = Response("Outside operating hours", <<>>, FALSE, FALSE)
                /\ blob' = blob
           ELSE IF ~verify_state_integrity(data)
           THEN /\ response' = Response("Invalid state data structure", <<>>, loaded, FALSE)
                /\ blob' = blob
           ELSE IF matches_updated /\ ~(verify_state_integrity(new_data) /\ upload_ok)
           THEN \* save_state raises
                /\ response' = Response("Failed to save state", results, loaded, FALSE)
                /\ blob' = blob
           ELSE /\ response' = Response("Success", results, loaded, matches_updated)
                /\ blob' = IF matches_updated
                           THEN [ readable |-> TRUE, matches |-> new_data.matches ]
                           ELSE blob
        /\ UNCHANGED <<scorecard_data, scoring_rules, player_roles, unknown_role_players,
                       returned, run_count, raised, pc, all_players, document,
                       dismissal_records, innings_num, row_num, lookup, lookup_results,
                       current_time>>

\* update_scores(request)
UpdateScores ==
    \E download_ok \in BOOLEAN : \E upload_ok \in BOOLEAN :
        \E outcomes \in UNION { [ 1..n -> UpdateOutcomes ] : n \in 0..Len(blob.matches) } :
            Invoke(download_ok, outcomes, upload_ok)

\* The clock when the function is deployed (13:00 of the first day), the
\* steps it advances by between two invocations, and the last instant
\* looked at (10:00 of the second day).
ClockStart == 780

ClockSteps == { 10, 120 }

MaxTime == 2040

\* Time passes.
Tick ==
    /\ \E step \in ClockSteps :
           /\ current_time + step <= MaxTime
           /\ current_time' = current_time + step
    /\ UNCHANGED <<scorecard_data, scoring_rules, player_roles, unknown_role_players,
                   returned, run_count, raised, pc, all_players, document,
                   dismissal_records, innings_num, row_num, lookup, lookup_results,
                   blob, response>>

\* start_time strings of the state file: 14:00 and 18:00 of the first day
\* with an offset, 14:00 without one, and a string no parser reads.
StartTimes ==
    { [ form |-> "aware", at |-> 840 ], [ form |-> "aware", at |-> 1080 ],
      [ form |-> "naive", at |-> 840 ], [ form |-> "unparsable", at |-> 0 ] }

\* State files as uploaded before the season: one match, not started and
\* never updated, possibly lacking a required field; or no readable file.
StateFiles ==
    { [ readable |-> TRUE,
        matches |-> << [ match_number |-> 1, start_time |-> start_time,
                         status |-> "not_started", last_update |-> NoTime,
                         complete |-> complete ] >> ] :
        start_time \in StartTimes, complete \in BOOLEAN }
    \cup { NoBlob }

InitSched ==
    /\ blob \in StateFiles
    /\ current_time = ClockStart
    /\ response = NoResponse
    /\ scorecard_data = <<>>
    /\ scoring_rules = 1
    /\ player_roles = <<>>
    /\ unknown_role_players = {}
    /\ returned = <<>>
    /\ run_count = 0
    /\ raised = FALSE
    /\ pc = "idle"
    /\ all_players = <<>>
    /\ document = NoPage
    /\ dismissal_records = <<>>
    /\ innings_num = 0
    /\ row_num = 0
    /\ lookup = NoLookup
    /\ lookup_results = <<>>

NextSched ==
    \/ Tick
    \/ UpdateScores

SpecSched == InitSched /\ [][NextSched]_vars

\* Cloud Scheduler keeps invoking the function and the bucket is not down
\* for ever: time passes, and an invocation in which download and upload
\* work is eventually made.
WorkingInvocation ==
    \E outcomes \in UNION { [ 1..n -> UpdateOutcomes ] : n \in 0..Len(blob.matches) } :
        Invoke(TRUE, outcomes, TRUE)

FairSched == SpecSched /\ WF_vars(Tick) /\ WF_vars(WorkingInvocation)

-----------------------------------------------------------------------------
(* Properties of the scoring engine.                                       *)

\* A scoring run has completed and written the scorecard.
Scored == run_count >= 1 /\ ~raised

\* The player is in the roster.
Known(p) == p \in DOMAIN player_roles

\* The batting / bowling body ran to its return statement for this record.
BattingComputed(st, p) == Known(p) /\ calculate_batting_points(st, p) # ZeroBatting

BowlingComputed(st, p) == Known(p) /\ calculate_bowling_points(st, p) # ZeroBowling

BattingAdded(t, p) == returned[t][p].batting.added

BowlingAdded(t, p) == returned[t][p].bowling.added

\* <<rule key, threshold>> of the milestone tiers
RunMilestones ==
    { <<"run_scoring.milestone_30", 30>>, <<"run_scoring.milestone_50", 50>>,
      <<"run_scoring.milestone_75", 75>>, <<"run_scoring.milestone_100", 100>>,
      <<"run_scoring.milestone_150", 150>> }

WicketMilestones ==
    { <<"wickets.milestone_3", 3>>, <<"wickets.milestone_4", 4>>,
      <<"wickets.milestone_5", 5>>, <<"wickets.milestone_6_plus", 6>> }

\* The milestone keys among `added` are exactly the one of the highest
\* threshold that `n` reaches (none when n is below every threshold).
HighestMilestoneOnly(added, milestones, n) ==
    LET reached == { m \in milestones : m[2] <= n }
        got == { m \in milestones : m[1] \in added }
    IN  /\ Cardinality(got) <= 1
        /\ \A m \in got : m \in reached /\ \A o \in reached : o[2] <= m[2]
        /\ reached # {} => got # {}

\* C1: a known-role player's batting points hold at most one run-milestone
\* value, the one of the highest threshold among 30/50/75/100/150 that
\* runs_scored reaches (none below 30), and the bowling points at most one
\* wicket-milestone value, the one of the highest of 3/4/5/6+ that wickets
\* reaches.  (A record the function rejects earns nothing at all.)
C1_HighestMilestoneOnly ==
    Scored =>
        \A t \in Teams : \A p \in PlayersOf(t) :
            LET st == StatsOf(t, p)
            IN  /\ Cardinality({ m \in RunMilestones : m[1] \in BattingAdded(t, p) }) <= 1
                /\ Cardinality({ m \in WicketMilestones : m[1] \in BowlingAdded(t, p) }) <= 1
                /\ BattingComputed(st, p) =>
                       HighestMilestoneOnly(BattingAdded(t, p), RunMilestones, st.runs_scored)
                /\ BowlingComputed(st, p) =>
                       HighestMilestoneOnly(BowlingAdded(t, p), WicketMilestones, st.wickets)

\* 52 runs earned milestone_50 alone, and 5 wickets milestone_5 alone, in some run.
C1_Witness ==
    /\ Scored
    /\ \E t \in Teams : \E p \in PlayersOf(t) :
           /\ StatsOf(t, p).runs_scored = 52
           /\ { m \in RunMilestones : m[1] \in BattingAdded(t, p) }
                  = { <<"run_scoring.milestone_50", 50>> }

\* <<rule key, direction, lowest magnitude, magnitude the band ends before>>
\* of the strike-rate-differential tiers, in tenths of a percent (0: no end).
SrDiffBands ==
    { <<"strike_rate_differential.lower.20_to_29.99", "lower", 200, 300>>,
      <<"strike_rate_differential.lower.30_to_39.99", "lower", 300, 400>>,
      <<"strike_rate_differential.lower.40_to_49.99", "lower", 400, 500>>,
      <<"strike_rate_differential.lower.50_to_59.99", "lower", 500, 600>>,
      <<"strike_rate_differential.lower.60_to_69.99", "lower", 600, 700>>,
      <<"strike_rate_differential.lower.70_plus", "lower", 700, 0>>,
      <<"strike_rate_differential.higher.20_to_29.99", "higher", 200, 300>>,
      <<"strike_rate_differential.higher.30_to_49.99", "higher", 300, 500>>,
      <<"strike_rate_differential.higher.50_to_74.99", "higher", 500, 750>>,
      <<"strike_rate_differential.higher.75_to_99.99", "higher", 750, 1000>>,
      <<"strike_rate_differential.higher.100_to_199.99", "higher", 1000, 2000>>,
      <<"strike_rate_differential.higher.200_plus", "higher", 2000, 0>> }

Magnitude(x) == IF x < 0 THEN 0 - x ELSE x

Direction(x) == IF x < 0 THEN "lower" ELSE "higher"

InBand(band, x) ==
    /\ band[2] = Direction(x)
    /\ band[3] <= Magnitude(x)
    /\ band[4] = 0 \/ Magnitude(x) < band[4]

\* C2: at most one strike_rate_differential tier value is added; it is of the
\* direction of the differential's sign and of the band holding the magnitude
\* (a magnitude on a threshold is in the band that starts there); no
\* differential earns a lower band's value because its own band's ball gate
\* failed; with 15 balls faced every differential of 20 % or more earns its band.
C2_OneSrDifferentialTierOfItsBand ==
    Scored =>
        \A t \in Teams : \A p \in PlayersOf(t) :
            LET st == StatsOf(t, p)
                got == { b \in SrDiffBands : b[1] \in BattingAdded(t, p) }
            IN  /\ Cardinality(got) <= 1
                /\ \A b \in got : InBand(b, st.sr_differential)
                /\ ( BattingComputed(st, p) /\ st.balls_faced >= 15
                        /\ Magnitude(st.sr_differential) >= 200 ) => got # {}

\* A differential exactly on the 30 % threshold earned the 30-49.99 tier.
C2_Witness ==
    /\ Scored
    /\ \E t \in Teams : \E p \in PlayersOf(t) :
           /\ StatsOf(t, p).sr_differential = 300
           /\ "strike_rate_differential.higher.30_to_49.99" \in BattingAdded(t, p)

OneToTwoBandKeys ==
    { "economy_rate.one_to_two_overs.15_to_17.99", "economy_rate.one_to_two_overs.13_to_14.99",
      "economy_rate.one_to_two_overs.12_to_12.99", "economy_rate.one_to_two_overs.11_to_11.99",
      "economy_rate.one_to_two_overs.7_to_7.99", "economy_rate.one_to_two_overs.6_to_6.99",
      "economy_rate.one_to_two_overs.5_to_5.99", "economy_rate.one_to_two_overs.4_to_4.99",
      "economy_rate.one_to_two_overs.3_to_3.99", "economy_rate.one_to_two_overs.2_to_2.99",
      "economy_rate.one_to_two_overs.below_2" }

MinTwoPointOneBandKeys ==
    { "economy_rate.min_2.1_overs.15_to_17.99", "economy_rate.min_2.1_overs.13_to_14.99",
      "economy_rate.min_2.1_overs.12_to_12.99", "economy_rate.min_2.1_overs.11_to_11.99",
      "economy_rate.min_2.1_overs.7_to_7.99", "economy_rate.min_2.1_overs.6_to_6.99",
      "economy_rate.min_2.1_overs.5_to_5.99", "economy_rate.min_2.1_overs.4_to_4.99",
      "economy_rate.min_2.1_overs.3_to_3.99", "economy_rate.min_2.1_overs.2_to_2.99",
      "economy_rate.min_2.1_overs.below_2" }

OneOverKeys == { "economy_rate.one_over.above_18" }

EconomyRateKeys == OneOverKeys \cup OneToTwoBandKeys \cup MinTwoPointOneBandKeys

EcoDiffKeys ==
    { "economy_rate_differential.higher.70_plus", "economy_rate_differential.higher.60_to_69.99",
      "economy_rate_differential.higher.50_to_59.99", "economy_rate_differential.higher.40_to_49.99",
      "economy_rate_differential.higher.30_to_39.99", "economy_rate_differential.higher.20_to_29.99",
      "economy_rate_differential.lower.70_plus", "economy_rate_differential.lower.60_to_69.99",
      "economy_rate_differential.lower.50_to_59.99", "economy_rate_differential.lower.40_to_49.99",
      "economy_rate_differential.lower.30_to_39.99", "economy_rate_differential.lower.20_to_29.99" }

\* The economy falls in one of the ten bands or below 2.
InSomeEconomyBand(e) == e < 800 \/ (1100 <= e /\ e < 1800)

StrikeRateBonusKeys ==
    { "strike_rate.above_300", "strike_rate.above_250", "strike_rate.above_200",
      "strike_rate.above_170", "strike_rate.above_150" }

StrikeRatePenaltyKeys == { "strike_rate.below_70", "strike_rate.below_90" }

\* C8: a strike-rate bonus tier is added only with runs_scored >= 20 and a
\* penalty tier only with balls_faced >= 15; no record earns more than one
\* value of the strike_rate category, so never a bonus and a penalty.
C8_StrikeRateGatesAndExclusion ==
    Scored =>
        \A t \in Teams : \A p \in PlayersOf(t) :
            LET st == StatsOf(t, p)
                bonus == BattingAdded(t, p) \cap StrikeRateBonusKeys
                penalty == BattingAdded(t, p) \cap StrikeRatePenaltyKeys
            IN  /\ bonus # {} => st.runs_scored >= 20
                /\ penalty # {} => st.balls_faced >= 15
                /\ Cardinality(bonus \cup penalty) <= 1

\* A batter past both gates (20 runs, 15 balls) earned a bonus tier and no penalty.
C8_Witness ==
    /\ Scored
    /\ \E t \in Teams : \E p \in PlayersOf(t) :
           /\ StatsOf(t, p).runs_scored >= 20
           /\ StatsOf(t, p).balls_faced >= 15
           /\ BattingAdded(t, p) \cap StrikeRateBonusKeys # {}
           /\ BattingAdded(t, p) \cap StrikeRatePenaltyKeys = {}

\* The regime an economy_rate key belongs to.
Regime(key) ==
    IF key \in OneOverKeys THEN "one_over"
    ELSE IF key \in OneToTwoBandKeys THEN "one_to_two_overs"
    ELSE "min_2.1_overs"

EconomyRateAdded(t, p) == BowlingAdded(t, p) \cap EconomyRateKeys

\* C3 as stated: at most one economy_rate value is added, and the regime it
\* comes from is determined by overs alone: two bowlers with the same overs
\* never earn values of different regimes.
C3_RegimeByOversAlone ==
    Scored =>
        \A t \in Teams : \A p \in PlayersOf(t) :
            /\ Cardinality(EconomyRateAdded(t, p)) <= 1
            /\ \A q \in PlayersOf(t) :
                   StatsOf(t, q).overs = StatsOf(t, p).overs =>
                       \A k \in EconomyRateAdded(t, p) : \A l \in EconomyRateAdded(t, q) :
                           Regime(k) = Regime(l)

\* C3 as amended: at most one economy_rate value is added; a one_to_two_overs
\* band only with 1 < overs <= 2 and a min_2.1_overs band only with
\* overs > 2.1, so overs alone decide which band table can contribute; but
\* one_over.above_18 is added at any overs >= 1 whenever economy >= 18, also
\* inside the overs ranges of the two band tables.
C3_OneEconomyRateValue ==
    Scored =>
        \A t \in Teams : \A p \in PlayersOf(t) :
            LET st == StatsOf(t, p)
                got == EconomyRateAdded(t, p)
            IN  /\ Cardinality(got) <= 1
                /\ got \cap OneToTwoBandKeys # {} => (100 < st.overs /\ st.overs <= 200)
                /\ got \cap MinTwoPointOneBandKeys # {} => st.overs > 210
                /\ BowlingComputed(st, p) =>
                       ( got \cap OneOverKeys # {} <=> (st.overs >= 100 /\ st.economy >= 1800) )
                /\ \A q \in PlayersOf(t) :
                       StatsOf(t, q).overs = st.overs =>
                           \A k \in got \ OneOverKeys :
                               \A l \in EconomyRateAdded(t, q) \ OneOverKeys :
                                   Regime(k) = Regime(l)

\* Two bowlers with the same overs (1.3): one earned one_over.above_18, the
\* other a one_to_two_overs band.
C3_Witness ==
    /\ Scored
    /\ \E t \in Teams : \E p, q \in PlayersOf(t) :
           /\ StatsOf(t, p).overs = 130
           /\ StatsOf(t, q).overs = 130
           /\ EconomyRateAdded(t, p) = OneOverKeys
           /\ EconomyRateAdded(t, q) \cap OneToTwoBandKeys # {}

PointsFields ==
    { "batting_points", "runs_points", "strike_rate_points", "boundaries_points",
      "bowling_points", "wickets_points", "maiden_points", "economy_points",
      "extras_points", "dots_points", "fielding_points", "potm_points", "total_points" }

StatsFields == DOMAIN create_default_player_stats \ PointsFields

\* C6: a player who is not in the roster has every points category, every
\* subtotal and total_points 0, whatever the statistics record holds (bad
\* values, missing keys, points left by an earlier run); and such a player
\* never makes the run raise: a run raises only on a roster player's record.
C6_UnknownRoleScoresZero ==
    /\ Scored =>
           \A t \in Teams : \A p \in PlayersOf(t) :
               ~Known(p) =>
                   /\ \A f \in PointsFields : StatsOf(t, p)[f] = 0
                   /\ returned[t][p] = NoResult
    /\ (run_count >= 1 /\ raised) =>
           \E t \in Teams : \E p \in PlayersOf(t) :
               Known(p) /\ "potm" \in StatsOf(t, p).absent

\* A run scored a non-roster player whose record lacks 'potm' and holds runs,
\* and a roster player of the same team got points in that run.
C6_Witness ==
    /\ Scored
    /\ \E t \in Teams : \E p, q \in PlayersOf(t) :
           /\ ~Known(p)
           /\ StatsOf(t, p).runs_scored = 52
           /\ StatsOf(t, p).absent = {"potm"}
           /\ Known(q)
           /\ StatsOf(t, q).total_points # 0

\* C9: for every scored player batting_points is the sum of its three
\* categories and bowling_points of its five, as returned (before rounding),
\* also when a group is zeroed; total_points is the 2-decimal rounding of
\* batting + bowling + fielding + player-of-match points.
C9_SubtotalsAreSums ==
    Scored =>
        \A t \in Teams : \A p \in PlayersOf(t) :
            LET r == returned[t][p]
            IN  /\ r.batting.batting_points =
                       r.batting.runs_points + r.batting.strike_rate_points
                           + r.batting.boundaries_points
                /\ r.bowling.bowling_points =
                       r.bowling.wickets_points + r.bowling.maiden_points
                           + r.bowling.economy_points + r.bowling.extras_points
                           + r.bowling.dots_points
                /\ StatsOf(t, p).total_points =
                       Round2(r.batting.batting_points + r.bowling.bowling_points
                                  + r.fielding_points + r.potm_points)
                /\ StatsOf(t, p).batting_points = Round2(r.batting.batting_points)
                /\ StatsOf(t, p).bowling_points = Round2(r.bowling.bowling_points)
                /\ StatsOf(t, p).fielding_points = Round2(r.fielding_points)
                /\ StatsOf(t, p).potm_points = Round2(r.potm_points)

\* A roster player whose batting group was zeroed by validation (non-numeric
\* runs_scored) while bowling, fielding and player-of-match points were earned.
C9_Witness ==
    /\ Scored
    /\ \E t \in Teams : \E p \in PlayersOf(t) :
           /\ Known(p)
           /\ "runs_scored" \in StatsOf(t, p).non_numeric
           /\ returned[t][p].batting = ZeroBatting
           /\ returned[t][p].bowling.bowling_points # 0
           /\ returned[t][p].fielding_points # 0
           /\ returned[t][p].potm_points # 0

StatsPart(card) ==
    [ t \in DOMAIN card |->
        [ p \in DOMAIN card[t].player_stats |->
            [ f \in StatsFields |-> card[t].player_stats[p][f] ] ] ]

\* C10: no run changes a statistics field, and a run over a scorecard that a
\* run has already scored writes the same points fields for every player.
C10_ScoringIdempotent ==
    [][ pc = "saved" =>
            /\ StatsPart(scorecard_data') = StatsPart(scorecard_data)
            /\ (Scored /\ ~raised') => scorecard_data' = scorecard_data ]_vars

\* After a second run a player has non-zero points of every group.
C10_Witness ==
    /\ run_count >= 2
    /\ ~raised
    /\ \E t \in Teams : \E p \in PlayersOf(t) :
           /\ StatsOf(t, p).batting_points # 0
           /\ StatsOf(t, p).bowling_points # 0
           /\ StatsOf(t, p).fielding_points # 0
           /\ StatsOf(t, p).potm_points # 0

DuckAdded(t, p) == "run_scoring.duck" \in BattingAdded(t, p)

\* The rows of team t's batting table(s) that carry player p's name.
BattingRowsOf(t, p) ==
    { row \in UNION { { document.innings[i].batting_rows[j] :
                            j \in 1..Len(document.innings[i].batting_rows) } :
                        i \in { k \in 1..Len(document.innings) :
                                    document.innings[k].team_header = t } } :
        clean_player_name(row.link).name = p }

\* The row says the batter is out.
Dismissed(row) == row.dismissal_info.kind \notin {"", "not out"}

\* runs_scored == 0 and did_not_bat == "No", as Python evaluates it on the record
ZeroAndBatted(st) ==
    /\ IsNumber(st, "runs_scored") /\ "runs_scored" \notin st.absent /\ st.runs_scored = 0
    /\ "did_not_bat" \notin st.absent /\ st.did_not_bat = "No"

\* C7 as stated: the duck penalty is in a roster player's run points if and
\* only if runs_scored == 0 and did_not_bat is "No"; end to end a batter whose
\* row shows 0 and "not out", and a player the page only gave defaults, never
\* get it, and a batter whose row shows 0 and a dismissal does.
C7_DuckAsStated ==
    Scored =>
        \A t \in Teams : \A p \in PlayersOf(t) :
            LET st == StatsOf(t, p)
                rows == BattingRowsOf(t, p)
            IN  /\ Known(p) => (DuckAdded(t, p) <=> ZeroAndBatted(st))
                /\ (\E row \in rows : row.runs = 0 /\ row.dismissal_info.kind = "not out")
                       => ~DuckAdded(t, p)
                /\ (Len(document.innings) > 0 /\ rows = {}) => ~DuckAdded(t, p)
                /\ (Known(p) /\ \E row \in rows : row.runs = 0 /\ Dismissed(row))
                       => DuckAdded(t, p)

\* C7 as amended: the duck penalty is only ever in the run points of a roster
\* player with runs_scored == 0 and did_not_bat "No", and it is there whenever
\* the batting calculation got past validation for such a record; every
\* record the scraper makes for a roster player gets past it.  End to end a
\* batter whose row shows 0 and "not out", and a player the page only gave
\* defaults, never get it; a roster batter whose row shows 0 and a dismissal
\* gets it if every cell of the row parsed (a row with a cell that does not
\* parse is skipped and leaves did_not_bat "Yes").
C7_DuckOnlyForBattedZero ==
    Scored =>
        \A t \in Teams : \A p \in PlayersOf(t) :
            LET st == StatsOf(t, p)
                rows == BattingRowsOf(t, p)
            IN  /\ DuckAdded(t, p) => (Known(p) /\ ZeroAndBatted(st))
                /\ (BattingComputed(st, p) /\ ZeroAndBatted(st)) => DuckAdded(t, p)
                /\ (Len(document.innings) > 0 /\ Known(p)) => BattingComputed(st, p)
                /\ (\E row \in rows : row.runs = 0 /\ row.dismissal_info.kind = "not out")
                       => ~DuckAdded(t, p)
                /\ (Len(document.innings) > 0 /\ rows = {}) => ~DuckAdded(t, p)
                /\ (Known(p) /\ \E row \in rows :
                                    row.runs = 0 /\ Dismissed(row) /\ row.unparsable = {})
                       => DuckAdded(t, p)
                /\ (\E row \in rows : row.unparsable # {}) => ~DuckAdded(t, p)

\* A scraped and scored match in which a roster batter out for 0 has the
\* penalty, a roster batter 0 not out has not, and neither have a substitute
\* fielder, a player of the did-not-bat list and a bowler without batting row.
C7_Witness ==
    /\ Scored
    /\ Len(document.innings) > 0
    /\ \E t, u \in Teams :
        \E p \in PlayersOf(t) : \E q, s, b \in PlayersOf(u) :
           /\ Known(p) /\ DuckAdded(t, p)
           /\ \E row \in BattingRowsOf(t, p) : row.runs = 0 /\ Dismissed(row)
           /\ Known(q) /\ ~DuckAdded(u, q)
           /\ \E row \in BattingRowsOf(u, q) :
                  row.runs = 0 /\ row.dismissal_info.kind = "not out"
           /\ Known(s) /\ StatsOf(u, s).is_sub /\ ~DuckAdded(u, s)
           /\ Known(b) /\ StatsOf(u, b).overs > 0 /\ BattingRowsOf(u, b) = {}
           /\ ~DuckAdded(u, b)

-----------------------------------------------------------------------------
(* Properties of the dismissal pass.                                       *)

\* The record the dismissal pass reads in this step.
DismissalRead == dismissal_records[row_num + 1]

\* The step is one pass of the dismissal loop over a run-out.
RunOutStep ==
    /\ pc = "dismissals"
    /\ row_num < Len(dismissal_records)
    /\ row_num' = row_num + 1
    /\ DismissalRead.dismissal_text.kind = "run out"

\* The named fielders of the record read in this step.
NamedFielders == parse_dismissal_text(DismissalRead.dismissal_text)

\* The name the i-th named fielder resolves to (NoName: not resolved).
ResolvedFielder(i) ==
    find_matching_player(NamedFielders[i].name, DismissalRead.bowling_team,
                         DOMAIN scorecard_data[DismissalRead.bowling_team].player_stats,
                         <<>>, NamedFielders[i].is_wicketkeeper).matched_name

\* run_outs (in sixths) a player holds in a team's map; 0 for a player not in it.
RunOutsOf(player_stats, p) == IF p \in DOMAIN player_stats THEN player_stats[p].run_outs ELSE 0

\* What the step added to the run_outs of p in the bowling team.
RunOutCredit(p) ==
    RunOutsOf(scorecard_data'[DismissalRead.bowling_team].player_stats, p)
    - RunOutsOf(scorecard_data[DismissalRead.bowling_team].player_stats, p)

RECURSIVE SumOver(_, _)
SumOver(f, set) ==
    IF set = {} THEN 0
    ELSE LET x == CHOOSE y \in set : TRUE IN f[x] + SumOver(f, set \ {x})

\* The run_outs the step handed out in the bowling team, in sixths.
RunOutCreditTotal ==
    LET players == DOMAIN scorecard_data'[DismissalRead.bowling_team].player_stats
    IN  SumOver([ p \in players |-> RunOutCredit(p) ], players)

\* C11 as stated: a run-out with N >= 1 named fielders hands out one run-out in
\* all (six sixths), 1/N to each; with no named fielder nothing changes.
C11_RunOutCreditsSumToOne ==
    [][ RunOutStep =>
          IF Len(NamedFielders) = 0
          THEN scorecard_data' = scorecard_data
          ELSE RunOutCreditTotal = 6 ]_vars

\* C11: each named fielder of a run-out that resolves to a roster player gets
\* 1/N of a run-out per fragment resolving to the player, nobody else gets
\* anything, so the credits sum to (resolved fragments)/N, which is 1 when all
\* N resolve; with no named fielder nothing changes and nothing is divided.
C11_RunOutCreditPerResolvedFielder ==
    [][ RunOutStep =>
          LET N == Len(NamedFielders)
              resolved == { i \in 1..N : ResolvedFielder(i) # NoName }
              players == DOMAIN scorecard_data'[DismissalRead.bowling_team].player_stats
          IN  IF N = 0
              THEN scorecard_data' = scorecard_data
              ELSE /\ \A p \in players :
                         RunOutCredit(p) =
                             (6 \div N) * Cardinality({ i \in resolved : ResolvedFielder(i) = p })
                   /\ RunOutCreditTotal = (6 \div N) * Cardinality(resolved)
                   /\ Cardinality(resolved) = N => RunOutCreditTotal = 6 ]_vars

\* A run-out by three fielders has been credited: a third of a run-out each.
C11_Witness ==
    /\ pc = "dismissals"
    /\ row_num > 0
    /\ LET record == dismissal_records[row_num]
           player_stats == scorecard_data[record.bowling_team].player_stats
       IN  /\ record.dismissal_text.kind = "run out"
           /\ Len(parse_dismissal_text(record.dismissal_text)) = 3
           /\ \E p \in DOMAIN player_stats : player_stats[p].run_outs = 2

-----------------------------------------------------------------------------
(* Properties of find_matching_player.                                     *)

\* The roster names of the looked-up team.
TeamNames ==
    { all_players[i].name : i \in { j \in 1..Len(all_players) :
          normalize_team_name(all_players[j].team) = normalize_team_name(lookup.team_name) } }

\* The team's roster names whose last token is the fragment's last token.
LastNameCandidates ==
    { p \in TeamNames : Last(NameParts[p]) = Last(NameParts[lookup.name]) }

\* The team's roster names that are the fragment, case aside.
ExactCandidates == { p \in TeamNames : NameParts[p] = NameParts[lookup.name] }

\* The direct calls made so far all returned this failure.
LookupsFailed(why) ==
    \A i \in 1..Len(lookup_results) :
        lookup_results[i].matched_name = NoName /\ lookup_results[i].error_msg = why

\* The direct calls made so far all returned this player.
LookupsFound(p) ==
    \A i \in 1..Len(lookup_results) :
        lookup_results[i].matched_name = p /\ lookup_results[i].error_msg = "None"

\* The dismissal pass has credited nobody: the bowling team's map is as it was.
NobodyCredited ==
    LET player_stats == scorecard_data[lookup.team_name].player_stats
    IN  /\ DOMAIN player_stats = lookup.existing_players
        /\ \A p \in DOMAIN player_stats :
               player_stats[p].catches = 0 /\ player_stats[p].stumping = 0
               /\ player_stats[p].run_outs = 0

\* The dismissal pass has credited p with the dismissal and nobody else.
OnlyCredited(p) ==
    LET player_stats == scorecard_data[lookup.team_name].player_stats
        Credits(q) == player_stats[q].catches + player_stats[q].stumping
                      + player_stats[q].run_outs
    IN  /\ DOMAIN player_stats = lookup.existing_players \cup {p}
        /\ Credits(p) > 0
        /\ \A q \in DOMAIN player_stats \ {p} : Credits(q) = 0

\* The dismissal pass has read the dismissal record.
DismissalDone == row_num = Len(dismissal_records)

\* Two roster players of the team share the last name of a single-token
\* fragment that carries no keeper marker, and neither is in the observed set.
SharedLastNameCase ==
    /\ Cardinality(LastNameCandidates) = 2
    /\ Len(NameParts[lookup.name]) = 1
    /\ ~lookup.is_wicketkeeper
    /\ LastNameCandidates \cap lookup.existing_players = {}

\* The candidates players.json does not list as Keeper.
NonKeeperCandidates == { p \in LastNameCandidates : RoleIn(all_players, p) # "Keeper" }

\* C12 as stated: in the shared-last-name case the lookup fails and nobody is
\* credited, whatever the roles of the two players.
C12_SharedLastNameAlwaysFails ==
    SharedLastNameCase =>
        /\ LookupsFailed("Multiple unresolved last name matches")
        /\ DismissalDone => NobodyCredited

\* C12: in the shared-last-name case the lookup fails, and nobody is credited,
\* when both players or neither of them is a Keeper; when exactly one of the
\* two is not a Keeper, that player is returned and credited.
C12_SharedLastNameFailsUnlessOneNonKeeper ==
    SharedLastNameCase =>
        IF Cardinality(NonKeeperCandidates) = 1
        THEN LET p == CHOOSE q \in NonKeeperCandidates : TRUE
             IN  LookupsFound(p) /\ (DismissalDone => OnlyCredited(p))
        ELSE /\ LookupsFailed("Multiple unresolved last name matches")
             /\ DismissalDone => NobodyCredited

\* Two non-keepers share the fragment's last name; the lookup has failed and
\* the dismissal pass has gone over the record.
C12_Witness ==
    /\ SharedLastNameCase
    /\ Cardinality(NonKeeperCandidates) = 2
    /\ lookup.existing_players # {}
    /\ Len(lookup_results) > 0
    /\ LookupsFailed("Multiple unresolved last name matches")
    /\ DismissalDone
    /\ NobodyCredited

\* The team's roster names whose first token is the fragment's first token.
FirstNameCandidates ==
    { p \in TeamNames : NameParts[p][1] = NameParts[lookup.name][1] }

\* A fragment of several tokens that no roster name of the team equals and
\* whose last token is no roster player's last token.
FirstNameCase ==
    /\ Len(NameParts[lookup.name]) > 1
    /\ TeamNames # {}
    /\ ExactCandidates = {}
    /\ LastNameCandidates = {}

\* C13: in the first-name case the lookup returns the first-token match when
\* there is exactly one, and fails when there are several.
C13_UniqueFirstNameMatchReturned ==
    FirstNameCase =>
        /\ Cardinality(FirstNameCandidates) = 1 =>
               LookupsFound(CHOOSE p \in FirstNameCandidates : TRUE)
        /\ Cardinality(FirstNameCandidates) > 1 =>
               \A i \in 1..Len(lookup_results) : lookup_results[i].matched_name = NoName

\* Several roster names of the team share the fragment's last token and none
\* is the fragment itself.
SeveralLastNameMatches ==
    /\ Cardinality(LastNameCandidates) > 1
    /\ ExactCandidates = {}

\* (a) the candidates whose first letter is that of the fragment's first name
FirstLetterFilter ==
    IF Len(NameParts[lookup.name]) > 1
    THEN { p \in LastNameCandidates :
             FirstLetter[NameParts[p][1]] = FirstLetter[NameParts[lookup.name][1]] }
    ELSE {}

\* (b) the candidates in the observed player set
ObservedFilter == LastNameCandidates \cap lookup.existing_players

\* (c) the candidates whose role agrees with the keeper hint
KeeperHintFilter ==
    IF lookup.is_wicketkeeper
    THEN LastNameCandidates \ NonKeeperCandidates
    ELSE NonKeeperCandidates

\* The filters in the order they are tried.
FiltersInOrder == << FirstLetterFilter, ObservedFilter, KeeperHintFilter >>

\* The positions of the filters that leave exactly one candidate.
DecidingFilters == { k \in 1..3 : Cardinality(FiltersInOrder[k]) = 1 }

\* C14: with several last-name matches the lookup returns the one candidate
\* left by the first filter, in the order (a), (b), (c), that leaves exactly
\* one; when no filter leaves exactly one it fails with 'Multiple unresolved
\* last name matches' and returns no name.
C14_FirstDecidingFilterOrFailure ==
    SeveralLastNameMatches =>
        IF DecidingFilters = {}
        THEN LookupsFailed("Multiple unresolved last name matches")
        ELSE LET first == CHOOSE k \in DecidingFilters : \A j \in DecidingFilters : k <= j
             IN  LookupsFound(CHOOSE p \in FiltersInOrder[first] : TRUE)

\* The first letter does not decide, the observed set does, and the lookup
\* has returned the observed player.
C14_Witness ==
    /\ SeveralLastNameMatches
    /\ Cardinality(FirstLetterFilter) # 1
    /\ Cardinality(ObservedFilter) = 1
    /\ Cardinality(KeeperHintFilter) = 1
    /\ KeeperHintFilter # ObservedFilter
    /\ Len(lookup_results) > 0
    /\ LookupsFound(CHOOSE p \in ObservedFilter : TRUE)

\* players.json with the same entries listed in another order.
Reorderings ==
    { [ k \in 1..Len(all_players) |-> all_players[order[k]] ] :
        order \in Permutations(1..Len(all_players)) }

\* C15: every call returns what find_matching_player returns for the same
\* fragment, team, keeper hint and observed set on any reordering of the
\* roster entries, whatever was called or credited before.
C15_OrderIndependent ==
    \A i \in 1..Len(lookup_results) :
        \A players \in Reorderings :
            lookup_results[i] =
                FindMatchingPlayer(players, lookup.name, lookup.team_name,
                                   lookup.existing_players, lookup.is_wicketkeeper)

-----------------------------------------------------------------------------
(* Properties of a whole scrape.                                           *)

\* The names a list of page links shows.
LinkNames(rows) == { clean_player_name(rows[i].link).name : i \in 1..Len(rows) }

\* The players named in a batting table, a did-not-bat list or a bowling
\* table of the page.
TablePlayers ==
    UNION { LinkNames(document.innings[i].batting_rows)
            \cup { clean_player_name(document.innings[i].dnb_players[j]).name :
                     j \in 1..Len(document.innings[i].dnb_players) }
            \cup LinkNames(document.innings[i].bowling_rows) :
            i \in 1..Len(document.innings) }

\* scrape_scorecard has built its scorecard (the dismissal pass is over).
ScrapeDone == Len(document.innings) > 0 /\ pc \in {"format", "saved"}

\* C16: in every final scorecard a player with is_sub = true appeared in no
\* batting table, did-not-bat list or bowling table of the page and has
\* did_not_bat "Yes", 0 runs and 0 overs; a player of the tables has is_sub
\* false.
C16_SubOnlyIfInNoTable ==
    ScrapeDone =>
        \A t \in Teams : \A p \in PlayersOf(t) :
            LET st == StatsOf(t, p)
            IN  /\ st.is_sub =>
                       /\ p \notin TablePlayers
                       /\ st.did_not_bat = "Yes" /\ st.runs_scored = 0 /\ st.overs = 0
                /\ p \in TablePlayers => ~st.is_sub

\* C18: the scrape ends with an error only if no team name was identified.
C18_ErrorOnlyWithoutTeamNames == pc = "error" => Len(team_names) = 0

\* The players with a row in a bowling table whose rows are recorded for team t.
BowlersOf(t) ==
    UNION { LinkNames(document.innings[i].bowling_rows) :
            i \in { k \in 1..Len(document.innings) :
                        BowlingTeamOf(document.innings[k].team_header) = t } }

\* C19: in a scraped scorecard, before and after scoring, a player's
\* economy_differential is nonzero only if the player has a bowling row and
\* the team's average_economy is above zero.
C19_EconomyDifferentialNeedsRowAndAverage ==
    ScrapeDone =>
        \A t \in Teams : \A p \in PlayersOf(t) :
            StatsOf(t, p).economy_differential # 0 =>
                /\ p \in BowlersOf(t)
                /\ scorecard_data[t].average_economy > 0

\* A scraped scorecard with a bowler whose economy differs from the team
\* average, and a bowler of a team without average whose differential is 0.
C19_Witness ==
    /\ ScrapeDone
    /\ \E t \in Teams : \E p \in PlayersOf(t) :
           /\ StatsOf(t, p).economy_differential # 0
           /\ scorecard_data[t].average_economy > 0
    /\ \E t \in Teams : \E p \in BowlersOf(t) \cap PlayersOf(t) :
           /\ StatsOf(t, p).economy > 0
           /\ scorecard_data[t].average_economy = 0
           /\ StatsOf(t, p).economy_differential = 0

-----------------------------------------------------------------------------
(* Properties of scoring under incomplete rule tables and of stub records. *)

\* The rule keys a category looks up for the record of a roster player.
CategoryKeys(st, p) ==
    [ batting |-> BattingResult(st, player_roles[p]).added,
      bowling |-> BowlingResult(st, player_roles[p]).added,
      fielding |-> Keys(FieldingTerms(st)),
      potm |-> IF st.potm = "Yes" THEN {"miscellaneous.player_of_match"} ELSE {} ]

\* The points fields of a category.
CategoryFields ==
    [ batting |-> {"batting_points", "runs_points", "strike_rate_points", "boundaries_points"},
      bowling |-> {"bowling_points", "wickets_points", "maiden_points", "economy_points",
                   "extras_points", "dots_points"},
      fielding |-> {"fielding_points"},
      potm |-> {"potm_points"} ]

\* C17: whatever entry the rule table lacks, a run completes without raising;
\* a player's category that needs a lacking entry has zero points, and every
\* player is scored and written.
C17_MissingRuleKeyNeverAborts ==
    run_count >= 1 =>
        /\ ~raised
        /\ \A t \in Teams : \A p \in PlayersOf(t) :
               LET st == StatsOf(t, p)
               IN  /\ returned[t][p] = PlayerResult(st, p)
                   /\ \A c \in DOMAIN CategoryFields :
                          RuleLookupFails(CategoryKeys(st, p)[c], player_roles[p]) =>
                              \A f \in CategoryFields[c] : st[f] = 0

\* The record holds the defaults of create_default_player_stats in every
\* statistics field.
HoldsOnlyDefaults(st) == \A f \in StatsFields : st[f] = create_default_player_stats[f]

\* C20: a record that holds only the defaults is a zero-point row after a
\* run, for every role and rule table: every category, every subtotal and
\* total_points are 0, and so is everything the calculations returned.
C20_DefaultRecordScoresZero ==
    Scored =>
        \A t \in Teams : \A p \in PlayersOf(t) :
            HoldsOnlyDefaults(StatsOf(t, p)) =>
                /\ \A f \in PointsFields : StatsOf(t, p)[f] = 0
                /\ returned[t][p].batting.batting_points = 0
                /\ returned[t][p].bowling.bowling_points = 0
                /\ returned[t][p].fielding_points = 0
                /\ returned[t][p].potm_points = 0

\* A roster player with a default record has been scored next to a player
\* with points.
C20_Witness ==
    /\ Scored
    /\ \E t \in Teams : \E p, q \in PlayersOf(t) :
           /\ Known(p)
           /\ HoldsOnlyDefaults(StatsOf(t, p))
           /\ StatsOf(t, p).total_points = 0
           /\ StatsOf(t, q).total_points # 0

-----------------------------------------------------------------------------
(* Properties of the strike-rate-differential tiers.                       *)

\* The position of a tier in its direction, 1 for the tier nearest zero.
TierPosition ==
    [ b \in SrDiffBands |->
        Cardinality({ c \in SrDiffBands : c[2] = b[2] /\ c[3] <= b[3] }) ]

\* The band of a direction at a position.
BandAt(direction, k) ==
    CHOOSE b \in SrDiffBands : b[2] = direction /\ TierPosition[b] = k

\* The positions of the tiers whose value a set of rule keys holds.
PositionsOf(keys) == { TierPosition[b] : b \in { c \in SrDiffBands : c[1] \in keys } }

\* The record with the differential of the same magnitude in the other direction.
Mirrored(st) == [ st EXCEPT !.sr_differential = 0 - @ ]

\* A player whose batting points were computed from a negative differential.
BelowInningsRate(t, p) ==
    BattingComputed(StatsOf(t, p), p) /\ StatsOf(t, p).sr_differential < 0

\* C22 as stated: a differential of -m earns the lower tier at the position
\* of the higher tier that +m earns with the same balls faced.
C22_LowerMirrorsHigher ==
    Scored =>
        \A t \in Teams : \A p \in PlayersOf(t) :
            BelowInningsRate(t, p) =>
                PositionsOf(BattingAdded(t, p)) =
                    PositionsOf(Keys(SrDifferentialTerms(Mirrored(StatsOf(t, p)))))

\* The least magnitudes of the six tiers, in tenths of a percent.
LowerThresholds == << 200, 300, 400, 500, 600, 700 >>

HigherThresholds == << 200, 300, 500, 750, 1000, 2000 >>

\* The position of the last threshold a magnitude reaches (0: none).
PositionIn(thresholds, m) == Cardinality({ k \in 1..Len(thresholds) : thresholds[k] <= m })

\* C22: the lower direction has its own bands, 20-29.99 / 30-39.99 / 40-49.99
\* / 50-59.99 / 60-69.99 / 70+, the higher direction 20-29.99 / 30-49.99 /
\* 50-74.99 / 75-99.99 / 100-199.99 / 200+; a tier earned is the one of the
\* magnitude's band in its own direction, so -m and +m earn tiers at the same
\* position only for magnitudes below 40.
C22_LowerBandsTenWide ==
    Scored =>
        \A t \in Teams : \A p \in PlayersOf(t) :
            LET st == StatsOf(t, p)
                m == Magnitude(st.sr_differential)
                got == PositionsOf(BattingAdded(t, p))
            IN  /\ BelowInningsRate(t, p) => got \subseteq { PositionIn(LowerThresholds, m) }
                /\ (BattingComputed(st, p) /\ st.sr_differential >= 0)
                       => got \subseteq { PositionIn(HigherThresholds, m) }
                /\ (BattingComputed(st, p) /\ st.balls_faced >= 15)
                       => got = { PositionIn(IF st.sr_differential < 0
                                             THEN LowerThresholds ELSE HigherThresholds, m) }
                                \ {0}
                /\ (BelowInningsRate(t, p) /\ m < 400)
                       => got = PositionsOf(Keys(SrDifferentialTerms(Mirrored(st))))

\* A differential of -40 % with 15 balls earned the third lower tier, where
\* +40 % earns the second higher one.
C22_Witness ==
    /\ Scored
    /\ \E t \in Teams : \E p \in PlayersOf(t) :
           /\ StatsOf(t, p).sr_differential = -400
           /\ StatsOf(t, p).balls_faced = 15
           /\ "strike_rate_differential.lower.40_to_49.99" \in BattingAdded(t, p)
           /\ PositionsOf(Keys(SrDifferentialTerms(Mirrored(StatsOf(t, p))))) = {2}

\* Balls-faced values the gates are looked for in.
GateBalls == 0..30

\* A differential on the tier's threshold with this many balls faced earns the tier.
EarnsTier(direction, k, balls) ==
    LET b == BandAt(direction, k)
        st == [ create_default_player_stats EXCEPT
                  !.balls_faced = balls,
                  !.sr_differential = IF direction = "lower" THEN 0 - b[3] ELSE b[3] ]
    IN  b[1] \in Keys(SrDifferentialTerms(st))

\* The minimum-balls-faced gate of each tier: the least number of balls with
\* which a differential on the tier's threshold earns it.
TierGate ==
    [ direction \in {"lower", "higher"} |->
        [ k \in 1..6 |->
            CHOOSE n \in GateBalls :
                /\ EarnsTier(direction, k, n)
                /\ \A fewer \in GateBalls : fewer < n => ~EarnsTier(direction, k, fewer) ] ]

\* In every scored record a tier is earned exactly when the magnitude is in
\* a band and the balls faced reach the gate of that band's tier.
GatesDecide ==
    Scored =>
        \A t \in Teams : \A p \in PlayersOf(t) :
            LET st == StatsOf(t, p)
                direction == Direction(st.sr_differential)
                k == PositionIn(IF direction = "lower" THEN LowerThresholds
                                ELSE HigherThresholds, Magnitude(st.sr_differential))
            IN  BattingComputed(st, p) =>
                    PositionsOf(BattingAdded(t, p)) =
                        IF k > 0 /\ st.balls_faced >= TierGate[direction][k] THEN {k} ELSE {}

\* C23 as stated: the gate never decreases as the tier's threshold increases;
\* it is 10 balls for the tiers nearest zero and 12 to 15 for the most extreme.
C23_GateGrowsWithMagnitude ==
    /\ GatesDecide
    /\ \A direction \in {"lower", "higher"} :
           /\ \A k \in 1..5 : TierGate[direction][k] <= TierGate[direction][k + 1]
           /\ TierGate[direction][1] = 10
           /\ TierGate[direction][6] \in 12..15

\* C23: in each direction the gate never increases as the tier's threshold
\* increases: 15 balls for the two tiers nearest zero, 12 for the third and
\* 10 for the three most extreme tiers.
C23_GateShrinksWithMagnitude ==
    /\ GatesDecide
    /\ \A direction \in {"lower", "higher"} :
           /\ \A k \in 1..5 : TierGate[direction][k] >= TierGate[direction][k + 1]
           /\ TierGate[direction] = << 15, 15, 12, 10, 10, 10 >>

\* With 10 balls faced a differential of -70 % has earned the most extreme
\* lower tier, and with 14 balls a differential of 20 % has earned nothing.
C23_Witness ==
    /\ Scored
    /\ \E t \in Teams : \E p \in PlayersOf(t) :
           LET st == StatsOf(t, p)
           IN  \/ /\ st.sr_differential = -700 /\ st.balls_faced = 10
                  /\ "strike_rate_differential.lower.70_plus" \in BattingAdded(t, p)
               \/ /\ st.sr_differential = 200 /\ st.balls_faced = 14
                  /\ BattingComputed(st, p)
                  /\ PositionsOf(BattingAdded(t, p)) = {}

-----------------------------------------------------------------------------
(* Properties of the credit a dismissal record gives.                      *)

\* The step is one pass of the dismissal loop.
DismissalStep ==
    /\ pc = "dismissals"
    /\ row_num < Len(dismissal_records)
    /\ row_num' = row_num + 1

\* catches, stumping and run_outs (in sixths) of p in a map; zeros for a
\* player the map does not hold.
FieldingOf(player_stats, p) ==
    IF p \in DOMAIN player_stats
    THEN [ catches |-> player_stats[p].catches, stumping |-> player_stats[p].stumping,
           run_outs |-> player_stats[p].run_outs ]
    ELSE [ catches |-> 0, stumping |-> 0, run_outs |-> 0 ]

FieldingFields == { "catches", "stumping", "run_outs" }

\* The fielding fields of p the step increased in the team of the record.
Increased(p) ==
    LET before == FieldingOf(scorecard_data[DismissalRead.bowling_team].player_stats, p)
        after == FieldingOf(scorecard_data'[DismissalRead.bowling_team].player_stats, p)
    IN  { f \in FieldingFields : after[f] > before[f] }

\* What the step added to a fielding field of p.
Gain(p, f) ==
    FieldingOf(scorecard_data'[DismissalRead.bowling_team].player_stats, p)[f]
    - FieldingOf(scorecard_data[DismissalRead.bowling_team].player_stats, p)[f]

\* The action type of a dismissal kind ("none": no fielding action).
ActionType(kind) ==
    IF kind \in {"c & b", "c"} THEN "catches"
    ELSE IF kind = "st" THEN "stumping"
    ELSE IF kind = "run out" THEN "run_outs"
    ELSE "none"

\* The names the named fielders of the record resolve to.
ResolvedFielders ==
    { ResolvedFielder(i) : i \in 1..Len(NamedFielders) } \ {NoName}

\* C21: a dismissal record credits one action type. Every resolved fielder
\* has exactly one of catches, stumping, run_outs increased, the one of the
\* record's kind; nobody else gains anything and no field decreases; a catch,
\* a stumping and a caught-and-bowled credit at most one fielder, with +1; a
\* record naming no fielder leaves the map as it was.
C21_OneActionTypePerDismissal ==
    [][ DismissalStep =>
          LET team == DismissalRead.bowling_team
              kind == DismissalRead.dismissal_text.kind
              before == scorecard_data[team].player_stats
              after == scorecard_data'[team].player_stats
              credited == { p \in DOMAIN after : Increased(p) # {} }
          IN  /\ \A t \in DOMAIN scorecard_data \ {team} : scorecard_data'[t] = scorecard_data[t]
              /\ credited = ResolvedFielders
              /\ \A p \in credited : Increased(p) = { ActionType(kind) }
              /\ \A p \in DOMAIN after : \A f \in FieldingFields : Gain(p, f) >= 0
              /\ kind \in {"c & b", "c", "st"} =>
                     /\ Cardinality(credited) <= 1
                     /\ \A p \in credited : Gain(p, ActionType(kind)) = 1
              /\ Len(DismissalRead.dismissal_text.fielders) = 0 => after = before
              /\ ActionType(kind) = "none" => after = before
      ]_vars

\* Both innings are through the dismissal pass: the keeper holds the catch
\* and the stumping of two records, and a shared run-out gave half a run-out
\* to each fielder of the other team.
C21_Witness ==
    /\ pc = "dismissals"
    /\ Len(dismissal_records) > 0
    /\ row_num = Len(dismissal_records)
    /\ \E i \in 1..Len(dismissal_records) : dismissal_records[i].dismissal_text.kind = "st"
    /\ \E i \in 1..Len(dismissal_records) : dismissal_records[i].dismissal_text.kind = "run out"
    /\ \E t \in Teams : \E p \in PlayersOf(t) :
           StatsOf(t, p).catches = 1 /\ StatsOf(t, p).stumping = 1 /\ StatsOf(t, p).run_outs = 0
    /\ \E t \in Teams : \E p \in PlayersOf(t) :
           StatsOf(t, p).catches = 0 /\ StatsOf(t, p).stumping = 0 /\ StatsOf(t, p).run_outs = 3

-----------------------------------------------------------------------------
(* Properties of the fields each pass of the scraper writes.               *)

BattingFields ==
    { "runs_scored", "balls_faced", "fours", "sixes", "strike_rate", "sr_differential",
      "did_not_bat" }

BowlingFields ==
    { "overs", "maiden", "wickets", "dots", "wides", "no_balls", "economy",
      "economy_differential" }

\* The step changes, in every team's map, at most these fields of a record
\* the map held, removes no record, and inserts only records that differ
\* from the given new record in at most these fields.
OnlyFieldsChange(fields, new_record) ==
    /\ DOMAIN scorecard_data' = DOMAIN scorecard_data
    /\ \A t \in DOMAIN scorecard_data :
           LET before == scorecard_data[t].player_stats
               after == scorecard_data'[t].player_stats
           IN  /\ DOMAIN before \subseteq DOMAIN after
               /\ \A p \in DOMAIN after :
                      LET old == IF p \in DOMAIN before THEN before[p] ELSE new_record
                      IN  /\ DOMAIN after[p] = DOMAIN old
                          /\ \A f \in DOMAIN old \ fields : after[p][f] = old[f]

BattingStep ==
    pc = "batting" /\ row_num < Len(CurrentInnings.batting_rows) /\ row_num' = row_num + 1

DidNotBatStep == pc = "batting" /\ pc' = "bowling"

BowlingStep ==
    pc = "bowling" /\ row_num < Len(CurrentInnings.bowling_rows) /\ row_num' = row_num + 1

\* The row's figures are the batting fields of the record.
HoldsBattingRow(stats, row) ==
    /\ stats.runs_scored = row.runs /\ stats.balls_faced = row.balls
    /\ stats.fours = row.fours /\ stats.sixes = row.sixes
    /\ stats.strike_rate = (IF row.strike_rate_dash THEN 0 ELSE row.strike_rate)
    /\ stats.did_not_bat = DidNotBat(row.runs, row.dismissal_info)

\* The row's figures are the bowling fields of the record.
HoldsBowlingRow(stats, row) ==
    /\ stats.overs = row.overs /\ stats.maiden = row.maiden /\ stats.wickets = row.wickets
    /\ stats.dots = row.dots /\ stats.wides = row.wides /\ stats.no_balls = row.no_balls
    /\ stats.economy = row.economy

\* After the innings loop every readable row is in the record of its player:
\* the batting rows in the map of the innings' team, the bowling rows in the
\* map of the other team, whichever innings came first.
KeepsBothSets ==
    (Len(document.innings) > 0 /\ pc = "dismissals") =>
        \A k \in 1..Len(document.innings) :
            LET innings == document.innings[k]
                batting_team == innings.team_header
                bowling_team == BowlingTeamOf(batting_team)
            IN  /\ batting_team \in DOMAIN scorecard_data =>
                       \A i \in 1..Len(innings.batting_rows) :
                           LET row == innings.batting_rows[i]
                           IN  row.unparsable = {} =>
                                   HoldsBattingRow(
                                       StatsOf(batting_team, clean_player_name(row.link).name),
                                       row)
                /\ \A i \in 1..Len(innings.bowling_rows) :
                       LET row == innings.bowling_rows[i]
                       IN  row.unparsable = {} =>
                               HoldsBowlingRow(
                                   StatsOf(bowling_team, clean_player_name(row.link).name), row)

\* C28: the batting pass changes only batting fields, the bowling pass only
\* bowling fields, the did-not-bat pass no field of a record that exists, the
\* dismissal pass only catches, stumping and run_outs (a record it inserts is
\* a default record marked is_sub); a player who bats and bowls holds both
\* rows after the innings loop, whatever the order of the innings.
C28_EachPassWritesItsOwnFields ==
    /\ [][ /\ BattingStep => OnlyFieldsChange(BattingFields, create_default_player_stats)
           /\ DidNotBatStep => OnlyFieldsChange({}, create_default_player_stats)
           /\ BowlingStep => OnlyFieldsChange(BowlingFields, create_default_player_stats)
           /\ DismissalStep =>
                  OnlyFieldsChange(FieldingFields,
                                   [ create_default_player_stats EXCEPT !.is_sub = TRUE ])
       ]_vars
    /\ []KeepsBothSets

\* One player batted in the first innings and bowled in the second, another
\* bowled in the first and batted in the second.
C28_Witness ==
    /\ Len(document.innings) > 0
    /\ pc = "dismissals"
    /\ \E t \in Teams : \E p \in PlayersOf(t) :
           /\ StatsOf(t, p).balls_faced > 0 /\ StatsOf(t, p).overs > 0
           /\ p = clean_player_name(document.innings[1].batting_rows[1].link).name
           /\ p = clean_player_name(document.innings[2].bowling_rows[1].link).name
    /\ \E t \in Teams : \E q \in PlayersOf(t) :
           /\ StatsOf(t, q).balls_faced > 0 /\ StatsOf(t, q).overs > 0
           /\ q = clean_player_name(document.innings[1].bowling_rows[1].link).name
           /\ q = clean_player_name(document.innings[2].batting_rows[1].link).name

-----------------------------------------------------------------------------
(* Properties of the team a fielder is looked for and credited in.         *)

\* What find_matching_player returns for the i-th named fielder of the record.
FielderLookup(i) ==
    find_matching_player(NamedFielders[i].name, DismissalRead.bowling_team,
                         DOMAIN scorecard_data[DismissalRead.bowling_team].player_stats,
                         <<>>, NamedFielders[i].is_wicketkeeper)

\* players.json lists the name for the team, up to the spelling of the team.
ListedFor(name, team_name) ==
    \E j \in 1..Len(all_players) :
        /\ all_players[j].name = name
        /\ normalize_team_name(all_players[j].team) = normalize_team_name(team_name)

\* The record comes from a batting row of an innings of its batting team.
FromInningsOf(record) ==
    \E k \in 1..Len(document.innings) :
        /\ document.innings[k].team_header = record.batting_team
        /\ \E i \in 1..Len(document.innings[k].batting_rows) :
               LET row == document.innings[k].batting_rows[i]
               IN  /\ clean_player_name(row.link).name = record.batsman
                   /\ row.dismissal_info = record.dismissal_text

\* C29: every name find_matching_player returns for a fielder is listed in
\* players.json for the fielding team (team names compared normalized); a
\* result has a name and no failure reason, or a reason and no name; and a
\* dismissal of one team's innings changes only the map of the other team,
\* crediting only players listed for that team.
C29_CreditStaysInFieldingTeam ==
    [][ DismissalStep =>
          LET record == DismissalRead
          IN  /\ \A i \in 1..Len(NamedFielders) :
                     LET found == FielderLookup(i)
                     IN  /\ found.matched_name # NoName =>
                                ListedFor(found.matched_name, record.bowling_team)
                         /\ (found.matched_name # NoName) <=> (found.error_msg = "None")
              /\ FromInningsOf(record)
              /\ record.bowling_team # record.batting_team
              /\ {record.bowling_team, record.batting_team} \subseteq DOMAIN scorecard_data
              /\ \A t \in DOMAIN scorecard_data \ {record.bowling_team} :
                     scorecard_data'[t] = scorecard_data[t]
              /\ \A p \in DOMAIN scorecard_data'[record.bowling_team].player_stats :
                     Increased(p) # {} => ListedFor(p, record.bowling_team)
      ]_vars

\* The dismissal pass is over: the catch of a Chennai keeper, listed under
\* another spelling of the team, is in Chennai's map, and the cell of a
\* Mumbai innings naming Mumbai's keeper credited nobody.
C29_Witness ==
    /\ pc = "dismissals"
    /\ Len(dismissal_records) > 0
    /\ row_num = Len(dismissal_records)
    /\ \E i \in 1..Len(dismissal_records) :
           /\ dismissal_records[i].batting_team = "Mumbai Indians"
           /\ dismissal_records[i].dismissal_text.fielders = << Link("Kishan", {"dagger"}) >>
    /\ "MS Dhoni" \in PlayersOf("Chennai Super Kings")
    /\ StatsOf("Chennai Super Kings", "MS Dhoni").catches = 1
    /\ "Ishan Kishan" \notin PlayersOf("Chennai Super Kings")
    /\ \A p \in PlayersOf("Mumbai Indians") : StatsOf("Mumbai Indians", p).catches = 0

-----------------------------------------------------------------------------
(* Properties of the order of the dismissal records.                       *)

\* The maps after the dismissal pass has read the records from the i-th on.
RECURSIVE DismissalPass(_, _, _)
DismissalPass(data, records, i) ==
    IF i > Len(records) THEN data
    ELSE LET record == records[i]
             player_stats == data[record.bowling_team].player_stats
         IN  DismissalPass(
                 [ data EXCEPT ![record.bowling_team].player_stats =
                     CreditFielders(player_stats, record,
                                    parse_dismissal_text(record.dismissal_text),
                                    DOMAIN player_stats, 1) ],
                 records, i + 1)

\* The records the dismissal pass has not read yet.
RecordsLeft == SubSeq(dismissal_records, row_num + 1, Len(dismissal_records))

\* catches, stumping, run_outs and is_sub of every player of every map.
FieldingCredits(data) ==
    [ t \in DOMAIN data |->
        [ p \in DOMAIN data[t].player_stats |->
            [ catches |-> data[t].player_stats[p].catches,
              stumping |-> data[t].player_stats[p].stumping,
              run_outs |-> data[t].player_stats[p].run_outs,
              is_sub |-> data[t].player_stats[p].is_sub ] ] ]

\* C30: the fielding credits do not depend on the order of the dismissal
\* records: read in any other order, the records still to be read leave
\* every player with the same catches, stumping, run_outs and is_sub.
C30_DismissalOrderIrrelevant ==
    pc = "dismissals" =>
        \A order \in Permutations(1..Len(RecordsLeft)) :
            FieldingCredits(DismissalPass(scorecard_data,
                                          [ k \in 1..Len(RecordsLeft) |-> RecordsLeft[order[k]] ],
                                          1))
            = FieldingCredits(DismissalPass(scorecard_data, RecordsLeft, 1))

-----------------------------------------------------------------------------
(* Properties of the Cloud Function and the state file.                    *)

\* The place of a status in not_started -> in_progress -> completed.
Rank(status) ==
    CASE status = "not_started" -> 0
      [] status = "in_progress" -> 1
      [] status = "completed" -> 2

\* The instants the clock can still show.
TimesAhead == current_time..MaxTime

\* C24: while the clock does not go back and start_time stays as it is, the
\* stored status of a match never moves backwards; a completed match is
\* final: should_process_match returns no should_update for it at any later
\* instant, update_main is not called for it again, and the stored match
\* (status, last_update) no longer changes.
C24_StatusNeverMovesBack ==
    [][ /\ current_time' >= current_time
        /\ Len(blob'.matches) = Len(blob.matches)
        /\ \A i \in 1..Len(blob.matches) :
               LET match == blob.matches[i]
                   after == blob'.matches[i]
               IN  /\ after.start_time = match.start_time
                   /\ Rank(after.status) >= Rank(match.status)
                   /\ match.status = "completed" =>
                          /\ after = match
                          /\ \A now \in TimesAhead :
                                 LET decision == should_process_match(match, now)
                                 IN  ~decision.should_update
                                     /\ decision.new_status = "completed"
                   /\ after.status = "completed" =>
                          after.match_number \notin response'.update_calls
      ]_vars

\* A match that was updated while in progress is completed, and a later
\* invocation has found nothing to do.
C24_Witness ==
    /\ Len(blob.matches) = 1
    /\ blob.matches[1].status = "completed"
    /\ blob.matches[1].last_update # NoTime
    /\ response.message = "Success"
    /\ response.loaded
    /\ ~response.matches_updated

\* The state file is valid and the start time of its match can be parsed.
ParseableStart ==
    /\ blob.readable
    /\ verify_state_integrity([ matches |-> blob.matches ])
    /\ \A i \in 1..Len(blob.matches) :
           parse_datetime(blob.matches[i].start_time).form # "unparsable"

AllCompleted == \A i \in 1..Len(blob.matches) : blob.matches[i].status = "completed"

\* C25: every match of a valid state file whose start_time can be parsed
\* eventually has the stored status completed, when time passes and the
\* function keeps being invoked with the bucket working.
C25_EveryMatchCompletes == ParseableStart ~> AllCompleted

\* The same for the start times that carry a UTC offset.
AwareStart ==
    /\ ParseableStart
    /\ \A i \in 1..Len(blob.matches) :
           parse_datetime(blob.matches[i].start_time).form = "aware"

AwareMatchCompletes == AwareStart ~> AllCompleted

\* update_main was called for the match in the last invocation and the
\* match was not processed.
FailedFor(match_number) ==
    /\ match_number \in response.update_calls
    /\ match_number \notin response.processed_matches

\* C26: when update_main was called for a due match and returned None or
\* raised, the stored last_update is as it was and the match is not in
\* processed_matches, so the match is due at every later instant of its
\* first five hours; the stored last_update changes only in an invocation
\* that lists the match in processed_matches, to the time of that invocation.
C26_FailureLeavesMatchDue ==
    [][ \A i \in 1..Len(blob.matches) :
            LET match == blob.matches[i]
                after == blob'.matches[i]
            IN  /\ Len(blob'.matches) = Len(blob.matches)
                /\ (response' # response /\ FailedFor(match.match_number)') =>
                       /\ after.last_update = match.last_update
                       /\ \A now \in TimesAhead :
                              now - after.start_time.at <= MatchHours * 60
                                  => should_process_match(after, now).should_update
                /\ after.last_update # match.last_update =>
                       /\ after.match_number \in response'.processed_matches
                       /\ after.last_update = current_time
      ]_vars

\* An invocation called update_main for the match and it failed: the status
\* change was saved, the match was never updated.
C26_Witness ==
    /\ Len(blob.matches) = 1
    /\ response.message = "Success"
    /\ FailedFor(1)
    /\ response.uploaded
    /\ blob.matches[1].status = "in_progress"
    /\ blob.matches[1].last_update = NoTime

\* C27: an invocation in which load_state fell back to {"matches": []}
\* uploads nothing; the state file changes only in an invocation that loaded
\* it, and only to a state that passes verify_state_integrity.
C27_LoadFailureNeverOverwrites ==
    [][ /\ ~response'.loaded => ~response'.uploaded
        /\ (response' # response /\ ~response'.loaded) => blob' = blob
        /\ blob' # blob =>
               /\ response'.loaded /\ response'.uploaded
               /\ blob'.readable
               /\ verify_state_integrity([ matches |-> blob'.matches ])
      ]_vars

\* Inside operating hours the download failed, the empty state passed the
\* integrity check, and the state file still holds its match, not started
\* although its start time has passed.
C27_Witness ==
    /\ response.message = "Success"
    /\ ~response.loaded
    /\ blob.readable
    /\ Len(blob.matches) = 1
    /\ blob.matches[1].status = "not_started"
    /\ blob.matches[1].start_time.form = "aware"
    /\ current_time > blob.matches[1].start_time.at

====
